---- MODULE Spec2Model ----
(***************************************************************************)
(* State-machine model of the space-station prototype: station generation  *)
(* and A* pathfinding (src/src/station.rs), the item containers            *)
(* (src/src/item.rs) and the inhabitant behaviour engine                   *)
(* (src/src/inhabitant.rs, driven by src/src/scenes/game.rs).              *)
(***************************************************************************)
EXTENDS Integers, Sequences, FiniteSets, TLC

VARIABLES
    tiles,      \* Station.tiles: HashMap<GridPosition, Tile>, a function on the occupied positions
    gen_pc,     \* position inside Station::generate
    twin,       \* the tile map of a second run of generate on the same random values
    width,      \* generate's width argument
    height,     \* generate's height argument
    path,       \* the Vec<GridPosition> returned by the last path_to call
    query,      \* the arguments of the last path_to call
    edits,      \* number of add_tile / remove_tile calls made on the fixture station
    item,       \* the Item (item.rs) that add_item and remove_item are called on
    next_id,    \* the next fresh Uuid::new_v4(), as a number
    result,     \* the GameResult of the last Item::add_item call
    arg,        \* the argument of the last add_item / remove_item call
    inhabitants, \* Game.inhabitants: Vec<Inhabitant>
    calls,      \* number of direct calls made on inhabitants' public methods
    last_op     \* the operation that produced the current state

stationVars == <<tiles, gen_pc, twin, width, height>>
pathVars == <<path, query, edits>>
itemVars == <<item, next_id, result, arg>>
inhVars == <<inhabitants, calls>>
vars == <<stationVars, pathVars, itemVars, inhVars, last_op>>

----------------------------------------------------------------------------
(* GridPosition                                                            *)

GridPosition(x, y) == [x |-> x, y |-> y]

Abs(n) == IF n < 0 THEN -n ELSE n

\* GridPosition::distance: Manhattan distance on a square grid
distance(a, b) == Abs(a.x - b.x) + Abs(a.y - b.y)

\* std::cmp::Ordering as -1 (Less), 0 (Equal), 1 (Greater)
IntCmp(a, b) == IF a < b THEN -1 ELSE IF a > b THEN 1 ELSE 0

\* impl Ord for GridPosition: other.x.cmp(&self.x).then_with(|| self.y.cmp(&other.y))
GridPositionCmp(self, other) ==
    IF IntCmp(other.x, self.x) # 0 THEN IntCmp(other.x, self.x)
    ELSE IntCmp(self.y, other.y)

\* Mutant of MovementCmp: the costs compared the natural way round, which
\* turns the min-heap into a max-heap.
MovementCmpMaxHeap(self, other) ==
    IF IntCmp(self.cost, other.cost) # 0 THEN IntCmp(self.cost, other.cost)
    ELSE IF IntCmp(other.pos.x, self.pos.x) # 0 THEN IntCmp(other.pos.x, self.pos.x)
    ELSE IntCmp(self.pos.y, other.pos.y)

\* impl Ord for Movement: other.cost.cmp(&self.cost).then_with(|| self.pos.cmp(&other.pos))
MovementCmp(self, other) ==
    IF IntCmp(other.cost, self.cost) # 0 THEN IntCmp(other.cost, self.cost)
    ELSE GridPositionCmp(self.pos, other.pos)

----------------------------------------------------------------------------
(* Tile and TileType                                                       *)

\* Option::None
None == [none |-> TRUE]

\* enum WallDirection
WallDirection ==
    { "InteriorVertical", "InteriorHorizontal", "InteriorCross",
      "InteriorCornerTopLeft", "InteriorCornerTopRight",
      "InteriorCornerBottomLeft", "InteriorCornerBottomRight",
      "ExteriorTop", "ExteriorBottom", "ExteriorLeft", "ExteriorRight",
      "ExteriorCornerTopLeft", "ExteriorCornerTopRight",
      "ExteriorCornerBottomLeft", "ExteriorCornerBottomRight", "Full" }

Floor == [kind |-> "Floor", dir |-> "-"]
Wall(d) == [kind |-> "Wall", dir |-> d]
Door(d) == [kind |-> "Door", dir |-> d]

\* enum TileType
TileType == {Floor} \cup {Wall(d) : d \in WallDirection} \cup {Door(d) : d \in WallDirection}

\* Tile::new: a tile without items
NewTile(pos, kind) == [pos |-> pos, kind |-> kind, items |-> <<>>]

----------------------------------------------------------------------------
(* Station: the tile map                                                   *)

\* Mutant of add_tile: an occupied position keeps the tile it has
add_tile_if_vacant(ts, tile) ==
    [p \in (DOMAIN ts) \cup {tile.pos} |-> IF p \in DOMAIN ts THEN ts[p] ELSE tile]

\* Station::add_tile: self.tiles.insert(tile.pos, tile)
add_tile(ts, tile) ==
    [p \in (DOMAIN ts) \cup {tile.pos} |-> IF p = tile.pos THEN tile ELSE ts[p]]

\* Station::remove_tile: self.tiles.remove(&pos)
remove_tile(ts, pos) == [p \in (DOMAIN ts) \ {pos} |-> ts[p]]

\* Station::has_tile
has_tile(ts, pos) == pos \in DOMAIN ts

\* Station::get_tile
get_tile(ts, pos) == IF pos \in DOMAIN ts THEN ts[pos] ELSE None

\* Station::num_tiles
num_tiles(ts) == Cardinality(DOMAIN ts)

\* Station::get_neighbors: the four orthogonal positions that hold a tile.  The
\* result is a HashMap keyed by position, so the E W N S order of dirs (and
\* its parity reversal) is lost: the callers see an unordered collection.
get_neighbors(ts, pos) ==
    { d \in { GridPosition(pos.x + 1, pos.y), GridPosition(pos.x - 1, pos.y),
              GridPosition(pos.x, pos.y - 1), GridPosition(pos.x, pos.y + 1) } :
        has_tile(ts, d) }

----------------------------------------------------------------------------
(* Pathfinding: Station::search, an A-star search, and Station::path_to    *)

\* The iteration cap of path_to's reconstruction loop (count > 10000)
IterationCap == 10000

\* Station::movement_cost: (current.distance(next.pos) * 1000) as usize
movement_cost(current, next) == distance(current, next.pos) * 1000

\* Mutant of movement_heuristic: the estimate outweighs the cost of a step
movement_heuristic_overweight(a, b) == 5000 * (Abs(a.x - b.x) + Abs(a.y - b.y))

\* Station::movement_heuristic
movement_heuristic(a, b) == Abs(a.x - b.x) + Abs(a.y - b.y)

\* BinaryHeap::pop on the frontier: the greatest Movement under Ord.  Two
\* Movements that compare Equal have the same cost and pos, so the frontier is
\* a set and its greatest element is unique.
FrontierMax(frontier) ==
    CHOOSE m \in frontier : \A o \in frontier : MovementCmp(m, o) >= 0

\* The order in which one iteration of the HashMap returned by get_neighbors
\* yields its entries: order is a permutation of the four directions, and the
\* entries come out in that order.
NeighborSeq(ts, pos, order) ==
    LET all == [i \in 1..Len(order) |->
                    GridPosition(pos.x + order[i][1], pos.y + order[i][2])]
    IN  SelectSeq(all, LAMBDA d : d \in get_neighbors(ts, pos))

\* Mutant of SearchVisit: the match on next.kind is dropped, so Wall tiles are
\* pushed on the frontier like any other tile.
SearchVisitWalls(target, current, next, st) ==
    LET cur_cost == IF current \in DOMAIN st.cost_so_far THEN st.cost_so_far[current] ELSE 0
        new_cost == cur_cost + distance(current, next.pos) * 1000
        better   == \/ next.pos \notin DOMAIN st.cost_so_far
                    \/ new_cost < st.cost_so_far[next.pos]
    IN  IF ~better THEN st
        ELSE [frontier |-> st.frontier \cup
                  {[cost |-> new_cost + distance(next.pos, target), pos |-> next.pos]},
              came_from |-> [p \in (DOMAIN st.came_from) \cup {next.pos} |->
                                IF p = next.pos THEN current ELSE st.came_from[p]],
              cost_so_far |-> [p \in (DOMAIN st.cost_so_far) \cup {next.pos} |->
                                IF p = next.pos THEN new_cost ELSE st.cost_so_far[p]]]

\* The body of search's "for (_pos, next) in self.get_neighbors(current.pos)"
\* for one neighbour tile next; st holds frontier, came_from and cost_so_far.
\* cost_so_far.get(..).unwrap_or(&usize::MAX): an absent entry compares above
\* every new_cost.
SearchVisit(target, current, next, st) ==
    LET cur_cost == IF current \in DOMAIN st.cost_so_far THEN st.cost_so_far[current] ELSE 0
        new_cost == cur_cost + movement_cost(current, next)
        better   == \/ next.pos \notin DOMAIN st.cost_so_far
                    \/ new_cost < st.cost_so_far[next.pos]
    IN  IF ~better THEN st
        ELSE LET costs == [p \in (DOMAIN st.cost_so_far) \cup {next.pos} |->
                              IF p = next.pos THEN new_cost ELSE st.cost_so_far[p]]
             IN  IF next.kind.kind = "Wall"
                 THEN [st EXCEPT !.cost_so_far = costs]
                 ELSE [frontier |-> st.frontier \cup
                           {[cost |-> new_cost + movement_heuristic(next.pos, target),
                             pos |-> next.pos]},
                       came_from |-> [p \in (DOMAIN st.came_from) \cup {next.pos} |->
                                         IF p = next.pos THEN current ELSE st.came_from[p]],
                       cost_so_far |-> costs]

\* Mutant of SearchExpand: only the entry the iteration yields first is
\* visited, so the outcome follows the iteration order of the HashMap.
RECURSIVE SearchExpandFirst(_, _, _, _, _, _)
SearchExpandFirst(ts, target, current, nbrs, i, st) ==
    IF i > Len(nbrs) \/ i > 1 THEN st
    ELSE SearchExpandFirst(ts, target, current, nbrs, i + 1,
                           SearchVisit(target, current, ts[nbrs[i]], st))

RECURSIVE SearchExpand(_, _, _, _, _, _)
SearchExpand(ts, target, current, nbrs, i, st) ==
    IF i > Len(nbrs) THEN st
    ELSE SearchExpand(ts, target, current, nbrs, i + 1,
                      SearchVisit(target, current, ts[nbrs[i]], st))

\* The "while !frontier.is_empty()" loop of search, with the early exit once
\* the target is popped.
RECURSIVE SearchLoop(_, _, _, _)
SearchLoop(ts, target, order, st) ==
    IF st.frontier = {} THEN st
    ELSE LET current == FrontierMax(st.frontier)
             popped  == [st EXCEPT !.frontier = st.frontier \ {current}]
         IN  IF current.pos = target THEN popped
             ELSE SearchLoop(ts, target, order,
                      SearchExpand(ts, target, current.pos,
                                   NeighborSeq(ts, current.pos, order), 1, popped))

\* Station::search: the came_from map (position -> Option<position>)
search(ts, start, target, order) ==
    SearchLoop(ts, target, order,
        [frontier    |-> {[cost |-> 0, pos |-> start]},
         came_from   |-> [p \in {start} |-> None],
         cost_so_far |-> [p \in {start} |-> 0]]).came_from

Reverse(s) == [i \in 1..Len(s) |-> s[Len(s) + 1 - i]]

\* Mutant of PathWalk: the loop has no cap; iterations -1 stands for a loop
\* that never returns
RECURSIVE PathWalkUncapped(_, _, _, _, _)
PathWalkUncapped(reachable, start, current, acc, count) ==
    IF current = start THEN [path |-> Reverse(acc), iterations |-> count]
    ELSE LET pushed == Append(acc, current)
             next   == IF current \in DOMAIN reachable THEN reachable[current] ELSE None
             cur2   == IF next # None THEN next ELSE current
         IN  IF cur2 = current
             THEN [path |-> <<>>, iterations |-> -1]
             ELSE PathWalkUncapped(reachable, start, cur2, pushed, count + 1)

\* Mutant of PathWalk: the path is returned as it was collected, from the
\* target back towards the start, without path.reverse()
RECURSIVE PathWalkUnreversed(_, _, _, _, _)
PathWalkUnreversed(reachable, start, current, acc, count) ==
    IF current = start THEN [path |-> acc, iterations |-> count]
    ELSE LET pushed == Append(acc, current)
             next   == IF current \in DOMAIN reachable THEN reachable[current] ELSE None
             cur2   == IF next # None THEN next ELSE current
         IN  IF count + 1 > IterationCap
             THEN [path |-> <<>>, iterations |-> count + 1]
             ELSE IF cur2 = current
             THEN [path |-> <<>>, iterations |-> IterationCap + 1]
             ELSE PathWalkUnreversed(reachable, start, cur2, pushed, count + 1)

\* The "while current != start" loop of path_to.  When reachable has no
\* predecessor for current, current never changes again: the loop pushes it
\* until count exceeds the cap and Vec::new() is returned, which is what the
\* stuck branch yields at once.
RECURSIVE PathWalk(_, _, _, _, _)
PathWalk(reachable, start, current, acc, count) ==
    IF current = start THEN [path |-> Reverse(acc), iterations |-> count]
    ELSE LET pushed == Append(acc, current)
             next   == IF current \in DOMAIN reachable THEN reachable[current] ELSE None
             cur2   == IF next # None THEN next ELSE current
         IN  IF count + 1 > IterationCap
             THEN [path |-> <<>>, iterations |-> count + 1]
             ELSE IF cur2 = current
             THEN [path |-> <<>>, iterations |-> IterationCap + 1]
             ELSE PathWalk(reachable, start, cur2, pushed, count + 1)

\* Mutant of path_to_run: a target the search never reached is returned as a
\* one-waypoint path instead of the empty one.
path_to_run_unreached(ts, start, target, order) ==
    LET reachable == search(ts, start, target, order)
    IN  IF target \notin DOMAIN reachable
        THEN [path |-> <<target>>, iterations |-> 1]
        ELSE PathWalk(reachable, start, target, <<>>, 0)

\* Station::path_to together with the number of iterations its loop ran
path_to_run(ts, start, target, order) ==
    PathWalk(search(ts, start, target, order), start, target, <<>>, 0)

\* Station::path_to
path_to(ts, start, target, order) == path_to_run(ts, start, target, order).path

----------------------------------------------------------------------------
(* Station::generate                                                       *)

\* The cells of the width x height rectangle
Rect(w, h) == { GridPosition(x, y) : x \in 0..(w - 1), y \in 0..(h - 1) }

\* The order of "for x in 0..width { for y in 0..height {": column by column
CellSeq(w, h) ==
    [i \in 1..(w * h) |-> GridPosition((i - 1) \div h, (i - 1) % h)]

\* Fridge::new of station/item.rs: capacity 10, holding one Food of energy 10
FridgeNew(pos) ==
    [kind |-> "Fridge", pos |-> pos, capacity |-> 10,
     items |-> << [kind |-> "Food", pos |-> pos, energy |-> 10] >>]

\* Tile::add_item: self.items.push(item)
tile_add_item(tile, it) == [tile EXCEPT !.items = Append(tile.items, it)]

\* Seeding: every cell of the rectangle gets a Floor tile when its
\* rng.rand_float() draw is below 0.70; floors is the set of cells whose
\* draw was.
SeedTiles(ts, floors) ==
    [p \in (DOMAIN ts) \cup floors |-> IF p \in floors THEN NewTile(p, Floor) ELSE ts[p]]

\* One cell of the smoothing sweep, applied to the map as the sweep has left
\* it so far: a tile with fewer than 2 neighbours is removed, an empty cell
\* with exactly 3 neighbours becomes Floor.
SmoothCell(ts, pos) ==
    LET neighbor_count == Cardinality(get_neighbors(ts, pos))
    IN  IF has_tile(ts, pos)
        THEN IF neighbor_count < 2 THEN remove_tile(ts, pos) ELSE ts
        ELSE IF neighbor_count = 3 THEN add_tile(ts, NewTile(pos, Floor)) ELSE ts

\* One of the two iterations of the smoothing loop: the sweep over all cells
RECURSIVE SmoothSweep(_, _, _)
SmoothSweep(ts, cells, i) ==
    IF i > Len(cells) THEN ts
    ELSE SmoothSweep(SmoothCell(ts, cells[i]), cells, i + 1)

\* Station::get_wall_direction: the direction worked out from the neighbours
\* is overwritten by WallDirection::Full before it is returned.
get_wall_direction(ts, pos) == "Full"

\* Mutant of Around: only the four orthogonal cells, as get_neighbors has them
AroundOrthogonal(pos) ==
    { GridPosition(pos.x + 1, pos.y), GridPosition(pos.x - 1, pos.y),
      GridPosition(pos.x, pos.y - 1), GridPosition(pos.x, pos.y + 1) }

\* The eight cells around pos: "for x in -1..2 { for y in -1..2 {" without (0, 0)
Around(pos) ==
    { GridPosition(pos.x + dx, pos.y + dy) : dx \in -1..1, dy \in -1..1 } \ {pos}

\* The to_place map of generate: every cell around a Floor tile that holds no
\* tile, with the Wall it is to get.  Every entry has the same value, so the
\* order in which the tiles are visited does not show.
WallsToPlace(ts) ==
    LET floors == { p \in DOMAIN ts : ts[p].kind = Floor }
        cells  == UNION { { n \in Around(p) : ~has_tile(ts, n) } : p \in floors }
    IN  [n \in cells |->
            Wall(get_wall_direction(ts, CHOOSE p \in floors : n \in Around(p)))]

\* The second loop of the wall pass: add_tile for every entry of to_place
PlaceWallTiles(ts, to_place) ==
    [p \in (DOMAIN ts) \cup (DOMAIN to_place) |->
        IF p \in DOMAIN to_place THEN NewTile(p, to_place[p]) ELSE ts[p]]

----------------------------------------------------------------------------
(* The generation specification: Station::new runs generate on an empty    *)
(* station; gen_pc names the pass of generate that runs next               *)

\* HashMap::with_capacity: no tiles
NoTiles == [p \in {} |-> None]

\* The parts of the state a specification does not use keep these values
NoQuery == [start |-> None, target |-> None]
NoArg == [item |-> None, id |-> 0]
PathIdle == path = <<>> /\ query = NoQuery /\ edits = 0
ItemIdle == item = None /\ next_id = 1 /\ result = "none" /\ arg = NoArg
InhIdle == inhabitants = <<>> /\ calls = 0
StationIdle == tiles = NoTiles /\ gen_pc = "none" /\ twin = NoTiles /\ width = 0 /\ height = 0

\* Bounds of the generation model
MaxGenW == 3
MaxGenH == 3

InitGen ==
    /\ tiles = NoTiles
    /\ width \in 0..MaxGenW
    /\ height \in 0..MaxGenH
    /\ gen_pc = "seed"
    /\ twin = NoTiles
    /\ PathIdle
    /\ ItemIdle
    /\ InhIdle
    /\ last_op = "new"

\* "Randomly place floor tiles to give us a base"
GenSeed ==
    /\ gen_pc = "seed"
    /\ \E floors \in SUBSET Rect(width, height) : tiles' = SeedTiles(tiles, floors)
    /\ gen_pc' = "smooth1"
    /\ last_op' = "seed"
    /\ UNCHANGED <<twin, width, height, pathVars, itemVars, inhVars>>

\* "for _ in 0..2": one iteration of the smoothing loop
GenSmooth ==
    /\ gen_pc \in {"smooth1", "smooth2"}
    /\ tiles' = SmoothSweep(tiles, CellSeq(width, height), 1)
    /\ gen_pc' = IF gen_pc = "smooth1" THEN "smooth2" ELSE "walls"
    /\ last_op' = "smooth"
    /\ UNCHANGED <<twin, width, height, pathVars, itemVars, inhVars>>

\* "Loop over the floor tiles and place walls around the edges"
GenWalls ==
    /\ gen_pc = "walls"
    /\ tiles' = PlaceWallTiles(tiles, WallsToPlace(tiles))
    /\ gen_pc' = "furnish"
    /\ last_op' = "walls"
    /\ UNCHANGED <<twin, width, height, pathVars, itemVars, inhVars>>

\* Mutant of Furnishings: the loop without its break, a fridge on every
\* Floor tile
FurnishingsEveryFloor(ts) ==
    { [p \in DOMAIN ts |->
          IF ts[p].kind = Floor THEN tile_add_item(ts[p], FridgeNew(p)) ELSE ts[p]] }

\* The stations the furnishing loop can leave: the fridge on the Floor tile
\* that the iteration over the HashMap yields first, or ts itself without a
\* Floor tile
Furnishings(ts) ==
    LET floors == { p \in DOMAIN ts : ts[p].kind = Floor }
    IN  IF floors = {} THEN {ts}
        ELSE { [ts EXCEPT ![p] = tile_add_item(ts[p], FridgeNew(p))] : p \in floors }

\* "Place some items on the tiles": the first Floor tile that the iteration
\* over the HashMap yields gets the fridge; the iteration order of a HashMap
\* is arbitrary, so that is any Floor tile.  Without a Floor tile nothing is
\* placed.
GenFurnish ==
    /\ gen_pc = "furnish"
    /\ tiles' \in Furnishings(tiles)
    /\ gen_pc' = "done"
    /\ last_op' = "furnish"
    /\ UNCHANGED <<twin, width, height, pathVars, itemVars, inhVars>>

NextGen == GenSeed \/ GenSmooth \/ GenWalls \/ GenFurnish

SpecGen == InitGen /\ [][NextGen]_vars

----------------------------------------------------------------------------
(* The twin specification: two runs of generate with the same width and    *)
(* height that read the same values from the random source; tiles is the   *)
(* station of the first run, twin that of the second. Each run iterates    *)
(* over its own HashMap.                                                   *)

InitTwin == InitGen

\* Both runs seed from the same rand_float draws
TwinSeed ==
    /\ gen_pc = "seed"
    /\ \E floors \in SUBSET Rect(width, height) :
          /\ tiles' = SeedTiles(tiles, floors)
          /\ twin' = SeedTiles(twin, floors)
    /\ gen_pc' = "smooth1"
    /\ last_op' = "seed"
    /\ UNCHANGED <<width, height, pathVars, itemVars, inhVars>>

TwinSmooth ==
    /\ gen_pc \in {"smooth1", "smooth2"}
    /\ tiles' = SmoothSweep(tiles, CellSeq(width, height), 1)
    /\ twin' = SmoothSweep(twin, CellSeq(width, height), 1)
    /\ gen_pc' = IF gen_pc = "smooth1" THEN "smooth2" ELSE "walls"
    /\ last_op' = "smooth"
    /\ UNCHANGED <<width, height, pathVars, itemVars, inhVars>>

TwinWalls ==
    /\ gen_pc = "walls"
    /\ tiles' = PlaceWallTiles(tiles, WallsToPlace(tiles))
    /\ twin' = PlaceWallTiles(twin, WallsToPlace(twin))
    /\ gen_pc' = "furnish"
    /\ last_op' = "walls"
    /\ UNCHANGED <<width, height, pathVars, itemVars, inhVars>>

TwinFurnish ==
    /\ gen_pc = "furnish"
    /\ tiles' \in Furnishings(tiles)
    /\ twin' \in Furnishings(twin)
    /\ gen_pc' = "done"
    /\ last_op' = "furnish"
    /\ UNCHANGED <<width, height, pathVars, itemVars, inhVars>>

NextTwin == TwinSeed \/ TwinSmooth \/ TwinWalls \/ TwinFurnish

SpecTwin == InitTwin /\ [][NextTwin]_vars

----------------------------------------------------------------------------
(* The pathfinding specification: a walled room, edited by add_tile and    *)
(* remove_tile, and queried by path_to                                     *)

\* Bounds of the pathfinding model
MaxRoomW == 3
MaxRoomH == 2
MaxEdits == 1

\* The fixture of station.rs's tests (test_station_full is the 2 x 2 case): a
\* w x h block of Floor tiles at (1,1)..(w,h) inside a ring of exterior walls.
RoomKind(w, h, x, y) ==
    IF x = 0 /\ y = 0 THEN Wall("ExteriorCornerTopLeft")
    ELSE IF x = w + 1 /\ y = 0 THEN Wall("ExteriorCornerTopRight")
    ELSE IF x = 0 /\ y = h + 1 THEN Wall("ExteriorCornerBottomLeft")
    ELSE IF x = w + 1 /\ y = h + 1 THEN Wall("ExteriorCornerBottomRight")
    ELSE IF y = 0 THEN Wall("ExteriorTop")
    ELSE IF y = h + 1 THEN Wall("ExteriorBottom")
    ELSE IF x = 0 THEN Wall("ExteriorLeft")
    ELSE IF x = w + 1 THEN Wall("ExteriorRight")
    ELSE Floor

RoomBox(w, h) == { GridPosition(x, y) : x \in 0..(w + 1), y \in 0..(h + 1) }

test_station_full(w, h) ==
    [p \in RoomBox(w, h) |-> NewTile(p, RoomKind(w, h, p.x, p.y))]

\* The tile kinds add_tile is called with
EditKinds == { Floor, Wall("Full"), Door("InteriorVertical") }

\* The iteration orders of a four-entry HashMap: the permutations of E W N S
Directions == << <<1, 0>>, <<-1, 0>>, <<0, -1>>, <<0, 1>> >>
HashOrders ==
    { [i \in 1..4 |-> Directions[f[i]]] :
        f \in { g \in [1..4 -> 1..4] : \A i, j \in 1..4 : i # j => g[i] # g[j] } }

\* get_neighbors fills its map from dirs, which is E W N S or, on even
\* (x + y), its reverse: the two iteration orders path_to is queried under
QueryOrders == { Directions, [i \in 1..4 |-> Directions[5 - i]] }

InitPath ==
    /\ \E w \in 1..MaxRoomW, h \in 1..MaxRoomH :
          /\ tiles = test_station_full(w, h)
          /\ width = w
          /\ height = h
    /\ gen_pc = "none"
    /\ twin = NoTiles
    /\ PathIdle
    /\ ItemIdle
    /\ InhIdle
    /\ last_op = "new"

AddTile ==
    /\ edits < MaxEdits
    /\ \E pos \in RoomBox(width, height), kind \in EditKinds :
          tiles' = add_tile(tiles, NewTile(pos, kind))
    /\ edits' = edits + 1
    /\ path' = <<>>
    /\ query' = NoQuery
    /\ last_op' = "add_tile"
    /\ UNCHANGED <<gen_pc, twin, width, height, itemVars, inhVars>>

RemoveTile ==
    /\ edits < MaxEdits
    /\ \E pos \in RoomBox(width, height) : tiles' = remove_tile(tiles, pos)
    /\ edits' = edits + 1
    /\ path' = <<>>
    /\ query' = NoQuery
    /\ last_op' = "remove_tile"
    /\ UNCHANGED <<gen_pc, twin, width, height, itemVars, inhVars>>

\* path_to reads the station and changes nothing, so a query issued from the
\* state another query left yields the states that query yields from the
\* station itself: the model issues each query from a station state.
PathTo ==
    /\ last_op # "path_to"
    /\ \E start \in RoomBox(width, height), target \in RoomBox(width, height),
          order \in QueryOrders :
          /\ path' = path_to(tiles, start, target, order)
          /\ query' = [start |-> start, target |-> target]
    /\ last_op' = "path_to"
    /\ UNCHANGED <<stationVars, edits, itemVars, inhVars>>

NextPath == AddTile \/ RemoveTile \/ PathTo

SpecPath == InitPath /\ [][NextPath]_vars

----------------------------------------------------------------------------
(* The iteration-order specification: path_to queried on a room with at    *)
(* most one cell walled up or removed, under every order in which the      *)
(* HashMap of get_neighbors can yield its entries                          *)

RoomCells(w, h) == { GridPosition(x, y) : x \in 1..w, y \in 1..h }

InitOrder ==
    /\ \E w \in 1..MaxRoomW, h \in 1..MaxRoomH :
          /\ tiles \in {test_station_full(w, h)}
                 \cup { add_tile(test_station_full(w, h), NewTile(p, Wall("Full"))) :
                           p \in RoomCells(w, h) }
                 \cup { remove_tile(test_station_full(w, h), p) : p \in RoomCells(w, h) }
          /\ width = w
          /\ height = h
    /\ gen_pc = "none"
    /\ twin = NoTiles
    /\ PathIdle
    /\ ItemIdle
    /\ InhIdle
    /\ last_op = "new"

\* One path_to call whose get_neighbors maps iterate in the given order
PathToInOrder ==
    /\ last_op # "path_to"
    /\ \E start \in RoomBox(width, height), target \in RoomBox(width, height),
          order \in HashOrders :
          /\ path' = path_to(tiles, start, target, order)
          /\ query' = [start |-> start, target |-> target]
    /\ last_op' = "path_to"
    /\ UNCHANGED <<stationVars, edits, itemVars, inhVars>>

NextOrder == PathToInOrder

SpecOrder == InitOrder /\ [][NextOrder]_vars

----------------------------------------------------------------------------
(* Item (item.rs)                                                          *)

Food(k) == [type |-> "Food", sub |-> k]
Drink(k) == [type |-> "Drink", sub |-> k]
Container(k) == [type |-> "Container", sub |-> k]

\* enum FoodType, DrinkType, ContainerType and ItemType
FoodType == {"EnergyBar", "MealReadyToEat"}
DrinkType == {"Water", "Coffee"}
ContainerType == {"Fridge", "Locker"}
ItemType ==
    {Food(k) : k \in FoodType} \cup {Drink(k) : k \in DrinkType}
        \cup {Container(k) : k \in ContainerType}

\* get_food_types, get_drink_types: all subtypes of an item type
get_food_types == {Food(k) : k \in FoodType}
get_drink_types == {Drink(k) : k \in DrinkType}

\* "Containers have a capacity, other stuff doesn't"
ContainerCapacity == 10
\* Mutant of ItemCapacity: every kind of item gets the container capacity
ItemCapacityAll(kind) == ContainerCapacity

ItemCapacity(kind) == IF kind.type = "Container" THEN ContainerCapacity ELSE 0

\* Mutant of item_add_item: the capacity test is > instead of >=
item_add_item_off_by_one(self, child) ==
    IF Len(self.items) > self.capacity
    THEN [item |-> self, result |-> "Err"]
    ELSE [item |-> [self EXCEPT !.items = Append(self.items, child)], result |-> "Ok"]

\* Item::add_item: the item afterwards and the GameResult returned
item_add_item(self, child) ==
    IF Len(self.items) >= self.capacity
    THEN [item |-> self, result |-> "Err"]
    ELSE [item |-> [self EXCEPT !.items = Append(self.items, child)], result |-> "Ok"]

\* Mutant of item_remove_item: the last child is dropped, whatever the id
item_remove_item_last(self, id) ==
    [self EXCEPT !.items = SubSeq(self.items, 1, Len(self.items) - 1)]

\* Item::remove_item: self.items.retain(|item| item.id != id)
item_remove_item(self, id) ==
    [self EXCEPT !.items = SelectSeq(self.items, LAMBDA i : i.id # id)]

\* The Item struct that Item::new creates before "Some item types modify
\* after creation"
ItemBase(pos, kind, id) ==
    [id |-> id, kind |-> kind, pos |-> pos, items |-> <<>>, capacity |-> ItemCapacity(kind)]

\* Mutant of FillFridge: the last of the ten add_item calls is missing
RECURSIVE FillFridgeNine(_, _, _)
FillFridgeNine(i, k, id) ==
    IF k > 8 THEN i
    ELSE FillFridgeNine(
            item_add_item(i, ItemBase(GridPosition(k, 0),
                                      IF k % 2 = 0 THEN Food("EnergyBar") ELSE Drink("Water"),
                                      id + k)).item,
            k + 1, id)

\* The ten add_item(..).unwrap() calls that fill a new Fridge: energy bars
\* and water in turn, at (0,0) .. (9,0), each with a fresh id
RECURSIVE FillFridge(_, _, _)
FillFridge(i, k, id) ==
    IF k > 9 THEN i
    ELSE FillFridge(
            item_add_item(i, ItemBase(GridPosition(k, 0),
                                      IF k % 2 = 0 THEN Food("EnergyBar") ELSE Drink("Water"),
                                      id + k)).item,
            k + 1, id)

\* Item::new, with id the first of the fresh ids it draws
ItemNew(pos, kind, id) ==
    IF kind = Container("Fridge")
    THEN FillFridge(ItemBase(pos, kind, id), 0, id + 1)
    ELSE ItemBase(pos, kind, id)

\* The number of ids Item::new draws
ItemIds(kind) == IF kind = Container("Fridge") THEN 11 ELSE 1

\* Item::get_energy
get_energy(i) ==
    IF i.kind = Food("EnergyBar") THEN 10
    ELSE IF i.kind = Food("MealReadyToEat") THEN 50
    ELSE IF i.kind = Drink("Coffee") THEN 3
    ELSE 0

\* Item::get_hydration
get_hydration(i) ==
    IF i.kind = Drink("Water") THEN 10
    ELSE IF i.kind = Drink("Coffee") THEN 8
    ELSE 0

----------------------------------------------------------------------------
(* The item specification: an item of any kind, and add_item and           *)
(* remove_item called on it                                                *)

\* Bound of the item model: the number of ids drawn
MaxIds == 13

\* The kinds of the items handed to add_item
AddKinds == { Food("EnergyBar"), Container("Fridge") }

InitItem ==
    /\ StationIdle
    /\ PathIdle
    /\ InhIdle
    /\ \E kind \in ItemType :
          /\ item = ItemNew(GridPosition(1, 1), kind, 1)
          /\ next_id = 1 + ItemIds(kind)
    /\ result = "none"
    /\ arg = NoArg
    /\ last_op = "new"

ItemAddItem ==
    /\ \E kind \in AddKinds :
          /\ next_id + ItemIds(kind) - 1 <= MaxIds
          /\ LET child == ItemNew(item.pos, kind, next_id)
                 r     == item_add_item(item, child)
             IN  /\ item' = r.item
                 /\ result' = r.result
                 /\ arg' = [item |-> child, id |-> child.id]
          /\ next_id' = next_id + ItemIds(kind)
    /\ last_op' = "add_item"
    /\ UNCHANGED <<stationVars, pathVars, inhVars>>

ItemRemoveItem ==
    /\ \E id \in 0..(next_id - 1) :
          /\ item' = item_remove_item(item, id)
          /\ arg' = [item |-> None, id |-> id]
    /\ result' = "none"
    /\ last_op' = "remove_item"
    /\ UNCHANGED <<stationVars, pathVars, inhVars, next_id>>

NextItem == ItemAddItem \/ ItemRemoveItem

SpecItem == InitItem /\ [][NextItem]_vars

----------------------------------------------------------------------------
(* Inhabitants (inhabitant.rs)                                             *)

InhabitantType ==
    {"Pilot", "Engineer", "Scientist", "Medic", "Soldier", "Miner", "Cook", "Ghost"}

\* enum Behavior; item_types is the Vec<ItemType> of Search, only ever read
\* through contains
BehaviorWander == [name |-> "Wander", item_types |-> {}]
BehaviorSearch(item_types) == [name |-> "Search", item_types |-> item_types]
BehaviorEat == [name |-> "Eat", item_types |-> {}]
BehaviorDrink == [name |-> "Drink", item_types |-> {}]
BehaviorWork == [name |-> "Work", item_types |-> {}]

\* Vec::last and Vec::pop (pop of an empty Vec is None and leaves it empty)
Last(s) == IF s = <<>> THEN None ELSE s[Len(s)]
Pop(s) == IF s = <<>> THEN s ELSE SubSeq(s, 1, Len(s) - 1)

\* World positions. Tile::to_world_position maps the grid one to one onto
\* the world points station.pos + TILE_WIDTH * (x, y); every other point an
\* inhabitant occupies lies on the segment between a tile it left (at) and
\* the waypoint it eases to (toward). The code compares world points only
\* for equality and snaps them to tiles.
to_world_position(pos) == [at |-> pos, toward |-> pos]

\* The grid position get_tile_from_world snaps a world point to: ceil of
\* (point - TILE_WIDTH / 2) / TILE_WIDTH, the nearest tile, which halfway
\* between two tiles is the one with the lower coordinates
SnapToGrid(p) ==
    IF p.at = p.toward THEN p.at
    ELSE GridPosition(IF p.at.x < p.toward.x THEN p.at.x ELSE p.toward.x,
                      IF p.at.y < p.toward.y THEN p.at.y ELSE p.toward.y)

\* Station::get_tile_from_world
get_tile_from_world(ts, p) == get_tile(ts, SnapToGrid(p))

\* Mutant of get_random_tile: the variant of the kind is compared without
\* the wall direction
get_random_tile_any_direction(ts, kind) ==
    LET options == { ts[p] : p \in { q \in DOMAIN ts : ts[q].kind.kind = kind.kind } }
    IN  IF options = {} THEN {None} ELSE options

\* Station::get_random_tile: the tiles the rng can pick, None when there is
\* no tile of the kind
get_random_tile(ts, kind) ==
    LET options == { ts[p] : p \in { q \in DOMAIN ts : ts[q].kind = kind } }
    IN  IF options = {} THEN {None} ELSE options

\* The scan of Tile::get_item and Inhabitant::has_item: an item of one of
\* the types, or a container with a child of one of the types
HoldsItemOf(items, item_types) ==
    \E i \in 1..Len(items) :
        \/ items[i].kind \in item_types
        \/ /\ items[i].kind.type = "Container"
           /\ \E j \in 1..Len(items[i].items) : items[i].items[j].kind \in item_types

\* Tile::has_item
tile_has_item(tile, item_types) == HoldsItemOf(tile.items, item_types)

\* Station::find_items is called by Inhabitant::update but its source is not
\* in the repository snapshot; modelled from the specification's
\* "find_items(kinds) -> positions": the positions of the tiles holding an
\* item of one of the kinds, in the order of an iteration over the tile map
find_items(ts, item_types) ==
    LET hits == { p \in DOMAIN ts : tile_has_item(ts[p], item_types) }
        n    == Cardinality(hits)
    IN  { f \in [1..n -> hits] : \A i, j \in 1..n : i # j => f[i] # f[j] }

\* Inhabitant::new, with id the first of the three fresh ids it draws
InhabitantNew(pos, kind, id) ==
    [ id |-> id + 2,
      pos |-> pos,
      dest |-> None,
      path |-> <<>>,
      current_waypoint |-> 0,
      move_elapsed |-> 0,
      kind |-> kind,
      health |-> 100,
      hunger |-> 0,
      thirst |-> 0,
      age |-> 0,
      items |-> IF kind = "Ghost" THEN <<>>
                ELSE << ItemNew(GridPosition(0, 0), Food("EnergyBar"), id),
                        ItemNew(GridPosition(1, 0), Drink("Water"), id + 1) >>,
      behaviors |-> <<>>,
      panicked |-> FALSE ]   \* model only: a method call on it has panicked

\* Mutant of can_move_to: a Ghost is held to the test of the tile as well
can_move_to_as_living(self, tile) ==
    IF tile = None THEN FALSE
    ELSE tile.kind.kind # "Wall"

\* Inhabitant::can_move_to
can_move_to(self, tile) ==
    IF self.kind = "Ghost" THEN TRUE
    ELSE IF tile = None THEN FALSE
    ELSE tile.kind.kind # "Wall"

\* u8 arithmetic: wrapping sum and saturating_sub
U8Add(a, b) == (a + b) % 256
saturating_sub(a, b) == IF a < b THEN 0 ELSE a - b

\* Inhabitant::die
die(self) == [self EXCEPT !.kind = "Ghost"]

\* Mutant of take_damage: the health is lowered and die is not called
take_damage_without_die(self, amount) ==
    IF self.kind = "Ghost" THEN self
    ELSE [self EXCEPT !.health = saturating_sub(self.health, amount)]

\* Inhabitant::take_damage
take_damage(self, amount) ==
    IF self.kind = "Ghost" THEN self
    ELSE LET hurt == [self EXCEPT !.health = saturating_sub(self.health, amount)]
         IN  IF hurt.health = 0 THEN die(hurt) ELSE hurt

\* Mutant of add_hunger: the sum is not capped at 100
add_hunger_uncapped(self, value) ==
    IF self.kind = "Ghost" THEN self
    ELSE [self EXCEPT !.hunger = U8Add(self.hunger, value)]

\* Inhabitant::add_hunger
add_hunger(self, value) ==
    IF self.kind = "Ghost" THEN self
    ELSE LET sum == U8Add(self.hunger, value)
         IN  IF sum >= 100 THEN take_damage([self EXCEPT !.hunger = 100], 1)
             ELSE [self EXCEPT !.hunger = sum]

\* Inhabitant::add_thirst
add_thirst(self, value) ==
    IF self.kind = "Ghost" THEN self
    ELSE LET sum == U8Add(self.thirst, value)
         IN  IF sum >= 100 THEN take_damage([self EXCEPT !.thirst = 100], 1)
             ELSE [self EXCEPT !.thirst = sum]

\* Inhabitant::eat and Inhabitant::drink
eat(self, it) == [self EXCEPT !.hunger = saturating_sub(self.hunger, get_energy(it))]
drink(self, it) == [self EXCEPT !.thirst = saturating_sub(self.thirst, get_hydration(it))]

\* Inhabitant::wants_food and wants_drink, in hundredths: the f32 quotient
\* value / 100.0 is monotonic in value and exactly 0.5 at 50
wants_food(self) == IF self.kind = "Ghost" THEN 0 ELSE self.hunger
wants_drink(self) == IF self.kind = "Ghost" THEN 0 ELSE self.thirst

\* Inhabitant::has_item
has_item(self, item_types) == HoldsItemOf(self.items, item_types)

\* Inhabitant::remove_item
inhabitant_remove_item(self, id) ==
    [self EXCEPT !.items = SelectSeq(self.items, LAMBDA it : it.id # id)]

\* "Ease in over 2 seconds per square": the seconds a leg takes; time is
\* counted in whole seconds
MoveSeconds == 2

\* keyframe's ease(EaseInOut, source, next, move_elapsed / 2.0): source at
\* time 0, next from time 1.0 on (the time is clamped to [0, 1]), and a
\* point strictly between the two in between
ease(source, next, move_elapsed) ==
    IF source = next \/ move_elapsed >= MoveSeconds THEN next
    ELSE IF move_elapsed = 0 THEN source
    ELSE [at |-> source.at, toward |-> next.at]

\* Mutant of set_destination: the destination is set whether or not path_to
\* found a path
set_destination_always(self, ts, dest, order) ==
    IF dest = self.pos THEN self
    ELSE IF get_tile_from_world(ts, self.pos) = None \/ get_tile_from_world(ts, dest) = None
    THEN [self EXCEPT !.panicked = TRUE]
    ELSE [self EXCEPT !.move_elapsed = 0,
                      !.path = path_to(ts, get_tile_from_world(ts, self.pos).pos,
                                       get_tile_from_world(ts, dest).pos, order),
                      !.current_waypoint = 0, !.dest = dest]

\* Inhabitant::set_destination; order is the iteration order of the HashMap
\* of get_neighbors during the path_to call
set_destination(self, ts, dest, order) ==
    IF dest = self.pos THEN self
    ELSE IF get_tile_from_world(ts, self.pos) = None \/ get_tile_from_world(ts, dest) = None
    THEN [self EXCEPT !.panicked = TRUE]
    ELSE LET route == path_to(ts, get_tile_from_world(ts, self.pos).pos,
                              get_tile_from_world(ts, dest).pos, order)
         IN  IF route # <<>>
             THEN [self EXCEPT !.move_elapsed = 0, !.path = route,
                               !.current_waypoint = 0, !.dest = dest]
             ELSE self

\* Mutant of keep_moving: the behavior is popped at each waypoint reached,
\* not only at the destination
keep_moving_pop_each(self, dt, ts) ==
    IF self.dest = None THEN self
    ELSE IF \/ self.current_waypoint >= Len(self.path)
            \/ ~has_tile(ts, self.path[self.current_waypoint + 1])
    THEN [self EXCEPT !.panicked = TRUE]
    ELSE LET next_waypoint == to_world_position(self.path[self.current_waypoint + 1])
             reached == IF self.pos = next_waypoint
                        THEN add_thirst(add_hunger(
                                [self EXCEPT !.current_waypoint = @ + 1, !.move_elapsed = 0], 1), 1)
                        ELSE self
             elapsed == reached.move_elapsed + dt
             moved   == [reached EXCEPT !.move_elapsed = elapsed,
                                        !.pos = ease(reached.pos, next_waypoint, elapsed)]
         IN  IF moved.pos = moved.dest
             THEN [moved EXCEPT !.dest = None, !.behaviors = Pop(@)]
             ELSE IF moved.pos = next_waypoint /\ self.pos # next_waypoint
             THEN [moved EXCEPT !.behaviors = Pop(@)]
             ELSE moved

\* Inhabitant::keep_moving; path[current_waypoint] is path[current_waypoint + 1]
\* of the 1-based sequence
keep_moving(self, dt, ts) ==
    IF self.dest = None THEN self
    ELSE IF \/ self.current_waypoint >= Len(self.path)
            \/ ~has_tile(ts, self.path[self.current_waypoint + 1])
    THEN [self EXCEPT !.panicked = TRUE]
    ELSE LET next_waypoint == to_world_position(self.path[self.current_waypoint + 1])
             reached == IF self.pos = next_waypoint
                        THEN add_thirst(add_hunger(
                                [self EXCEPT !.current_waypoint = @ + 1, !.move_elapsed = 0], 1), 1)
                        ELSE self
             elapsed == reached.move_elapsed + dt
             moved   == [reached EXCEPT !.move_elapsed = elapsed,
                                        !.pos = ease(reached.pos, next_waypoint, elapsed)]
         IN  IF moved.pos = moved.dest
             THEN [moved EXCEPT !.dest = None, !.behaviors = Pop(@)]
             ELSE moved

\* Mutant of decide: no behavior is pushed
decide_nothing(self) == self

\* Mutant of decide: thirst is asked about before hunger
decide_drink_first(self) ==
    [self EXCEPT !.behaviors =
        Append(@, IF wants_drink(self) >= 50 THEN BehaviorDrink
                  ELSE IF wants_food(self) >= 50 THEN BehaviorEat
                  ELSE BehaviorWander)]

\* The None arm of update's match: "Decide what to do"
decide(self) ==
    [self EXCEPT !.behaviors =
        Append(@, IF wants_food(self) >= 50 THEN BehaviorEat
                  ELSE IF wants_drink(self) >= 50 THEN BehaviorDrink
                  ELSE BehaviorWander)]

\* The Wander arm; tile is the result of get_random_tile
wander(self, ts, dt, tile, order) ==
    IF self.dest # None THEN keep_moving(self, dt, ts)
    ELSE IF ~can_move_to(self, tile) THEN self
    ELSE IF tile = None THEN [self EXCEPT !.panicked = TRUE]
    ELSE set_destination(self, ts, to_world_position(tile.pos), order)

\* Mutant of eat_step: food eaten from the inventory is removed from it
eat_step_consuming(self, current_tile) ==
    IF has_item(self, get_food_types)
    THEN [eat(self, ItemNew(current_tile.pos, Food("EnergyBar"), 0))
             EXCEPT !.behaviors = Pop(@),
                    !.items = SelectSeq(@, LAMBDA it : it.kind \notin get_food_types)]
    ELSE IF tile_has_item(current_tile, get_food_types)
    THEN [eat(self, ItemNew(current_tile.pos, Food("EnergyBar"), 0))
             EXCEPT !.behaviors = Pop(@)]
    ELSE [self EXCEPT !.behaviors = Append(@, BehaviorSearch(get_food_types))]

\* Mutant of eat_step: the Search takes the place of the Eat on the stack
eat_step_replacing(self, current_tile) ==
    IF has_item(self, get_food_types) \/ tile_has_item(current_tile, get_food_types)
    THEN [eat(self, ItemNew(current_tile.pos, Food("EnergyBar"), 0))
             EXCEPT !.behaviors = Pop(@)]
    ELSE [self EXCEPT !.behaviors = Append(Pop(@), BehaviorSearch(get_food_types))]

\* Mutant of eat_step: the inventory alone is looked at, not the tile
eat_step_inventory_only(self, current_tile) ==
    IF has_item(self, get_food_types)
    THEN [eat(self, ItemNew(current_tile.pos, Food("EnergyBar"), 0))
             EXCEPT !.behaviors = Pop(@)]
    ELSE [self EXCEPT !.behaviors = Append(@, BehaviorSearch(get_food_types))]

\* Mutant of eat_step: the item eaten is a fresh MealReadyToEat
eat_step_meal(self, current_tile) ==
    IF has_item(self, get_food_types) \/ tile_has_item(current_tile, get_food_types)
    THEN [eat(self, ItemNew(current_tile.pos, Food("MealReadyToEat"), 0))
             EXCEPT !.behaviors = Pop(@)]
    ELSE [self EXCEPT !.behaviors = Append(@, BehaviorSearch(get_food_types))]

\* The Eat arm; the temporary Item::new is dropped, its id is never stored
eat_step(self, current_tile) ==
    IF has_item(self, get_food_types) \/ tile_has_item(current_tile, get_food_types)
    THEN [eat(self, ItemNew(current_tile.pos, Food("EnergyBar"), 0))
             EXCEPT !.behaviors = Pop(@)]
    ELSE [self EXCEPT !.behaviors = Append(@, BehaviorSearch(get_food_types))]

\* Mutant of drink_step: the Search pushed by the Drink arm looks for food
drink_step_seeking_food(self, current_tile) ==
    IF has_item(self, get_drink_types) \/ tile_has_item(current_tile, get_drink_types)
    THEN [drink(self, ItemNew(current_tile.pos, Drink("Water"), 0))
             EXCEPT !.behaviors = Pop(@)]
    ELSE [self EXCEPT !.behaviors = Append(@, BehaviorSearch(get_food_types))]

\* The Drink arm
drink_step(self, current_tile) ==
    IF has_item(self, get_drink_types) \/ tile_has_item(current_tile, get_drink_types)
    THEN [drink(self, ItemNew(current_tile.pos, Drink("Water"), 0))
             EXCEPT !.behaviors = Pop(@)]
    ELSE [self EXCEPT !.behaviors = Append(@, BehaviorSearch(get_drink_types))]

\* The for loop of the Search arm over found, from index i on
RECURSIVE BestPath(_, _, _, _, _, _)
BestPath(ts, from, found, i, order, best_path) ==
    IF i > Len(found) THEN best_path
    ELSE LET route == path_to(ts, from, found[i], order)
         IN  BestPath(ts, from, found, i + 1, order,
                      IF best_path = <<>> \/ Len(route) < Len(best_path)
                      THEN route ELSE best_path)

\* Mutant of search_step: a Search that finds no path gives up and is popped
search_step_giving_up(self, ts, dt, current_tile, found, scan_order, order) ==
    IF self.dest # None THEN keep_moving(self, dt, ts)
    ELSE LET best_path == BestPath(ts, current_tile.pos, found, 1, scan_order, <<>>)
         IN  IF best_path = <<>> THEN [self EXCEPT !.behaviors = Pop(@)]
             ELSE IF ~has_tile(ts, best_path[Len(best_path)])
             THEN [self EXCEPT !.panicked = TRUE]
             ELSE set_destination(self, ts,
                                  to_world_position(best_path[Len(best_path)]), order)

\* The Search arm; found is the result of find_items
search_step(self, ts, dt, current_tile, found, scan_order, order) ==
    IF self.dest # None THEN keep_moving(self, dt, ts)
    ELSE LET best_path == BestPath(ts, current_tile.pos, found, 1, scan_order, <<>>)
         IN  IF best_path = <<>> THEN self
             ELSE IF ~has_tile(ts, best_path[Len(best_path)])
             THEN [self EXCEPT !.panicked = TRUE]
             ELSE set_destination(self, ts,
                                  to_world_position(best_path[Len(best_path)]), order)

\* Inhabitant::update. dt is timer::delta; rnd holds what the tick draws
\* from outside: tile (get_random_tile), found (find_items) and the HashMap
\* iteration orders scan_order and order of the path_to calls
update(self, ts, dt, rnd) ==
    LET aged == [self EXCEPT !.age = @ + dt]
        current_tile == get_tile_from_world(ts, self.pos)
        next == Last(aged.behaviors)
    IN  IF current_tile = None THEN [aged EXCEPT !.panicked = TRUE]
        ELSE IF next = None THEN decide(aged)
        ELSE IF next.name = "Wander" THEN wander(aged, ts, dt, rnd.tile, rnd.order)
        ELSE IF next.name = "Eat" THEN eat_step(aged, current_tile)
        ELSE IF next.name = "Drink" THEN drink_step(aged, current_tile)
        ELSE IF next.name = "Search"
        THEN search_step(aged, ts, dt, current_tile, rnd.found, rnd.scan_order, rnd.order)
        ELSE aged

\* What a tick of self draws: the rng is asked for a tile only by a Wander
\* without destination, find_items is called only by a Search without
\* destination, and only these two arms call path_to
Draws(self, ts) ==
    LET next  == Last(self.behaviors)
        picks == next # None /\ next.name = "Wander" /\ self.dest = None
        seeks == next # None /\ next.name = "Search" /\ self.dest = None
    IN  [ tile : IF picks THEN get_random_tile(ts, Floor) ELSE {None},
          found : IF seeks THEN find_items(ts, next.item_types) ELSE {<<>>},
          scan_order : IF seeks THEN QueryOrders ELSE {Directions},
          order : IF picks \/ seeks THEN QueryOrders ELSE {Directions} ]

----------------------------------------------------------------------------
(* The game scene (scenes/game.rs)                                         *)

\* Game::get_random_inhabitant_type: rand_range(0..6) draws 0 .. 5
get_random_inhabitant_type ==
    {"Pilot", "Engineer", "Scientist", "Medic", "Soldier", "Miner"}

\* Mutant of add_inhabitant: the new inhabitant replaces the list
add_inhabitant_replacing(list, pos, kind, id) == << InhabitantNew(pos, kind, id) >>

\* Game::add_inhabitant
add_inhabitant(list, pos, kind, id) == Append(list, InhabitantNew(pos, kind, id))

\* The ids Inhabitant::new draws: its own and those of its two items
InhabitantIds == 3

\* Item::update: the item passes the call on to its children and changes
\* nothing of its own
RECURSIVE item_update(_)
item_update(i) ==
    [i EXCEPT !.items = [k \in 1..Len(i.items) |-> item_update(i.items[k])]]

\* Mutant of station_update: a tile without items does not outlast the loop
station_update_dropping(ts) ==
    [p \in { q \in DOMAIN ts : ts[q].items # <<>> } |->
        [ts[p] EXCEPT !.items = [k \in 1..Len(ts[p].items) |-> item_update(ts[p].items[k])]]]

\* Station::update: item.update for every item of every tile
station_update(ts) ==
    [p \in DOMAIN ts |->
        [ts[p] EXCEPT !.items = [k \in 1..Len(ts[p].items) |-> item_update(ts[p].items[k])]]]

\* The loop of Game::update over the inhabitants; rnds[i] is what the tick
\* of inhabitant i draws
game_update(list, ts, dt, rnds) ==
    [i \in 1..Len(list) |-> update(list[i], ts, dt, rnds[i])]

\* What the ticks of the first n inhabitants of a Game::update draw
RECURSIVE GameDraws(_, _, _)
GameDraws(list, ts, n) ==
    IF n = 0 THEN { <<>> }
    ELSE { Append(rnds, rnd) : rnds \in GameDraws(list, ts, n - 1), rnd \in Draws(list[n], ts) }

\* A panic unwinds out of the event loop: nothing runs after it
Running == \A i \in 1..Len(inhabitants) : ~inhabitants[i].panicked

----------------------------------------------------------------------------
(* The inhabitant specification: one inhabitant on a furnished station,    *)
(* ticked by update and driven through its public methods.                 *)

\* Bounds: the longest frame delta in seconds, the age up to which an
\* inhabitant is ticked, the number of direct method calls, the number of
\* inhabitants they are made on, and the room
MaxDt == 2
MaxAge == 6
MaxCalls == 2
MaxCalled == 1
InhRoomW == 2
InhRoomH == 2

\* The floor of the w x h fixture room
RoomFloor(w, h) == { GridPosition(x, y) : x \in 1..w, y \in 1..h }

\* The fixture room with a new Fridge (ids id .. id + 10) added to the
\* Floor tile at pos
FurnishedRoom(w, h, pos, id) ==
    [test_station_full(w, h) EXCEPT
        ![pos] = tile_add_item(@, ItemNew(pos, Container("Fridge"), id))]

\* n calls of add_hunger(1), and of add_thirst(1): the first n \div 2 calls,
\* then the others
RECURSIVE AddHungerTimes(_, _)
AddHungerTimes(self, n) ==
    IF n = 0 THEN self
    ELSE IF n = 1 THEN add_hunger(self, 1)
    ELSE LET half == AddHungerTimes(self, n \div 2)
         IN  IF half.panicked THEN half ELSE AddHungerTimes(half, n - (n \div 2))
RECURSIVE AddThirstTimes(_, _)
AddThirstTimes(self, n) ==
    IF n = 0 THEN self
    ELSE IF n = 1 THEN add_thirst(self, 1)
    ELSE LET half == AddThirstTimes(self, n \div 2)
         IN  IF half.panicked THEN half ELSE AddThirstTimes(half, n - (n \div 2))

\* The inhabitant is taken up after a history of add_hunger(1),
\* add_thirst(1) and take_damage calls on the new inhabitant that has led
\* it next to the thresholds of the decision rule and of starvation:
\* <<hunger, thirst, health>> after that history
PriorStats ==
    { <<0, 0, 100>>, <<49, 0, 1>>, <<0, 49, 100>>, <<99, 49, 100>>, <<49, 99, 100>>,
      <<99, 99, 2>> }
Prior(self, hunger, thirst, health) ==
    take_damage(AddThirstTimes(AddHungerTimes(self, hunger), thirst), 100 - health)

\* The kinds Inhabitant::new is called with, the amounts of take_damage, the
\* lengths of the runs of add_hunger(1) and of add_thirst(1) calls that are
\* taken as one step, and the kinds of the items handed to eat and drink
NewKinds == {"Engineer", "Ghost"}
DamageAmounts == {1, 100}
CallRuns == {1, 50}
ServedKinds == { Food("MealReadyToEat"), Drink("Coffee") }

\* The Floor tile that holds the Fridge
FridgeAt == GridPosition(1, 1)

InitInh ==
    /\ \E spawn \in RoomFloor(InhRoomW, InhRoomH), kind \in NewKinds, stats \in PriorStats :
          inhabitants =
                << Prior(InhabitantNew(to_world_position(spawn), kind, 12),
                         stats[1], stats[2], stats[3]) >>
    /\ tiles = FurnishedRoom(InhRoomW, InhRoomH, FridgeAt, 1)
    /\ width = InhRoomW
    /\ height = InhRoomH
    /\ gen_pc = "none"
    /\ twin = NoTiles
    /\ PathIdle
    /\ item = None
    /\ next_id = 12 + InhabitantIds
    /\ result = "none"
    /\ arg = NoArg
    /\ calls = 0
    /\ last_op = "new"

\* Inhabitant::update on one inhabitant
InhabitantUpdate ==
    /\ Running
    /\ \E i \in 1..Len(inhabitants) :
          /\ inhabitants[i].age < MaxAge
          /\ \E dt \in 1..MaxDt, rnd \in Draws(inhabitants[i], tiles) :
                inhabitants' = [inhabitants EXCEPT ![i] = update(@, tiles, dt, rnd)]
    /\ last_op' = "update"
    /\ UNCHANGED <<stationVars, pathVars, itemVars, calls>>

\* The inhabitants the direct calls are made on: the first MaxCalled of the list
Called == 1..(IF Len(inhabitants) < MaxCalled THEN Len(inhabitants) ELSE MaxCalled)

\* A direct call of a public method on inhabitant i that leaves it as after
CallOn(i, after, name) ==
    /\ Running
    /\ calls < MaxCalls
    /\ inhabitants' = [inhabitants EXCEPT ![i] = after]
    /\ calls' = calls + 1
    /\ last_op' = name
    /\ UNCHANGED <<stationVars, pathVars, itemVars>>

AddHunger ==
    \E i \in Called, n \in CallRuns :
        CallOn(i, AddHungerTimes(inhabitants[i], n), "add_hunger")

AddThirst ==
    \E i \in Called, n \in CallRuns :
        CallOn(i, AddThirstTimes(inhabitants[i], n), "add_thirst")

TakeDamage ==
    \E i \in Called, amount \in DamageAmounts :
        CallOn(i, take_damage(inhabitants[i], amount), "take_damage")

Die ==
    \E i \in Called : CallOn(i, die(inhabitants[i]), "die")

Eat ==
    \E i \in Called, kind \in ServedKinds :
        CallOn(i, eat(inhabitants[i], ItemNew(GridPosition(0, 0), kind, 0)), "eat")

DrinkItem ==
    \E i \in Called, kind \in ServedKinds :
        CallOn(i, drink(inhabitants[i], ItemNew(GridPosition(0, 0), kind, 0)), "drink")

RemoveItem ==
    \E i \in Called :
        \E id \in {0} \cup { inhabitants[i].items[k].id : k \in 1..Len(inhabitants[i].items) } :
            CallOn(i, inhabitant_remove_item(inhabitants[i], id), "remove_item")

NextInh ==
    \/ InhabitantUpdate
    \/ AddHunger
    \/ AddThirst
    \/ TakeDamage
    \/ Die
    \/ Eat
    \/ DrinkItem
    \/ RemoveItem

SpecInh == InitInh /\ [][NextInh]_vars

----------------------------------------------------------------------------
(* The game specification: the crew of Game::new on a furnished station,   *)
(* Game::update ticks, the N key and direct calls on the crew.             *)

\* num_crew of Game::new
NumCrew == 3

\* Bounds: the crew size up to which N is pressed, the age up to which the
\* game is ticked, and the room
MaxCrew == 4
MaxGameAge == 2
GameRoomW == 2
GameRoomH == 1

\* The inhabitant type the crew is drawn as: no method tells the types other
\* than Ghost apart
CrewTypes == {"Pilot"}

\* The loop of Game::new over 0..num_crew, from k on
RECURSIVE NewCrew(_, _, _, _, _)
NewCrew(list, pos, kinds, k, id) ==
    IF k > Len(kinds) THEN list
    ELSE NewCrew(add_inhabitant(list, pos, kinds[k], id), pos, kinds, k + 1,
                 id + InhabitantIds)

InitGame ==
    /\ tiles = FurnishedRoom(GameRoomW, GameRoomH, FridgeAt, 1)
    /\ \E tile \in get_random_tile(tiles, Floor) \ {None}, kinds \in [1..NumCrew -> CrewTypes] :
          inhabitants = NewCrew(<<>>, to_world_position(tile.pos), kinds, 1, 12)
    /\ width = GameRoomW
    /\ height = GameRoomH
    /\ gen_pc = "none"
    /\ twin = NoTiles
    /\ PathIdle
    /\ item = None
    /\ next_id = 12 + NumCrew * InhabitantIds
    /\ result = "none"
    /\ arg = NoArg
    /\ calls = 0
    /\ last_op = "new"

\* Game::update: the station's update changes nothing, then every
\* inhabitant is ticked with the same delta
GameUpdate ==
    /\ Running
    /\ inhabitants[1].age < MaxGameAge
    /\ tiles' = station_update(tiles)
    /\ \E dt \in 1..MaxDt :
       \E rnds \in GameDraws(inhabitants, tiles', Len(inhabitants)) :
          inhabitants' = game_update(inhabitants, tiles', dt, rnds)
    /\ last_op' = "update"
    /\ UNCHANGED <<gen_pc, twin, width, height, pathVars, itemVars, calls>>

\* key_down_event, KeyCode::N: a new inhabitant on a random Floor tile
AddInhabitant ==
    /\ Running
    /\ Len(inhabitants) < MaxCrew
    /\ \E tile \in get_random_tile(tiles, Floor) \ {None}, kind \in CrewTypes :
          inhabitants' = add_inhabitant(inhabitants, to_world_position(tile.pos), kind, next_id)
    /\ next_id' = next_id + InhabitantIds
    /\ last_op' = "add_inhabitant"
    /\ UNCHANGED <<stationVars, pathVars, item, result, arg, calls>>

NextGame ==
    \/ GameUpdate
    \/ AddInhabitant
    \/ AddHunger
    \/ AddThirst
    \/ TakeDamage
    \/ Die
    \/ Eat
    \/ DrinkItem

SpecGame == InitGame /\ [][NextGame]_vars

----------------------------------------------------------------------------
(* The spawn specification: Game::new on a station that generate has left, *)
(* then the N key and update ticks                                         *)

\* Bounds: the rectangle generate is run on, the crew size up to which N is
\* pressed and the age up to which the game is ticked
SpawnW == 2
SpawnH == 2
SpawnCrew == 4
MaxSpawnAge == 2

\* The stations Station::generate(w, h, rng) can leave: the seeding for any
\* draws, the two smoothing iterations, the walls and the furnishing
Generated(w, h) ==
    UNION { LET seeded   == SeedTiles(NoTiles, floors)
                smoothed == SmoothSweep(SmoothSweep(seeded, CellSeq(w, h), 1), CellSeq(w, h), 1)
            IN  Furnishings(PlaceWallTiles(smoothed, WallsToPlace(smoothed)))
          : floors \in SUBSET Rect(w, h) }

\* Station::new has returned; Game::new is about to populate the station
InitSpawn ==
    /\ width \in 0..SpawnW
    /\ height \in 0..SpawnH
    /\ tiles \in Generated(width, height)
    /\ gen_pc = "none"
    /\ twin = NoTiles
    /\ PathIdle
    /\ item = None
    /\ next_id = 12
    /\ result = "none"
    /\ arg = NoArg
    /\ inhabitants = <<>>
    /\ calls = 0
    /\ last_op = "generate"

\* "Put some people in it" of Game::new: get_random_tile(Floor).unwrap()
\* panics on None; otherwise num_crew inhabitants are added at the tile
SpawnCrewOnTile ==
    /\ last_op = "generate"
    /\ \E tile \in get_random_tile(tiles, Floor), kinds \in [1..NumCrew -> CrewTypes] :
          IF tile = None
          THEN /\ result' = "panicked"
               /\ UNCHANGED <<inhabitants, next_id>>
          ELSE /\ inhabitants' = NewCrew(<<>>, to_world_position(tile.pos), kinds, 1, next_id)
               /\ next_id' = next_id + NumCrew * InhabitantIds
               /\ UNCHANGED result
    /\ last_op' = "new"
    /\ UNCHANGED <<stationVars, pathVars, item, arg, calls>>

\* key_down_event, KeyCode::N: get_random_tile(Floor).unwrap(), then
\* add_inhabitant at the tile
SpawnKeyN ==
    /\ last_op # "generate"
    /\ result # "panicked"
    /\ Running
    /\ Len(inhabitants) < SpawnCrew
    /\ \E tile \in get_random_tile(tiles, Floor), kind \in CrewTypes :
          IF tile = None
          THEN /\ result' = "panicked"
               /\ UNCHANGED <<inhabitants, next_id>>
          ELSE /\ inhabitants' = add_inhabitant(inhabitants, to_world_position(tile.pos),
                                                kind, next_id)
               /\ next_id' = next_id + InhabitantIds
               /\ UNCHANGED result
    /\ last_op' = "add_inhabitant"
    /\ UNCHANGED <<stationVars, pathVars, item, arg, calls>>

\* Game::update on the populated station.  The paths do not depend on the
\* order in which the neighbours are iterated, so the ticks are taken with
\* one order.
SpawnUpdate ==
    /\ last_op # "generate"
    /\ result # "panicked"
    /\ Running
    /\ inhabitants[1].age < MaxSpawnAge
    /\ tiles' = station_update(tiles)
    /\ \E dt \in 1..MaxDt :
       \E rnds \in { r \in GameDraws(inhabitants, tiles', Len(inhabitants)) :
                        \A i \in 1..Len(r) : r[i].order = Directions } :
          inhabitants' = game_update(inhabitants, tiles', dt, rnds)
    /\ last_op' = "update"
    /\ UNCHANGED <<gen_pc, twin, width, height, pathVars, itemVars, calls>>

NextSpawn == SpawnCrewOnTile \/ SpawnKeyN \/ SpawnUpdate

SpecSpawn == InitSpawn /\ [][NextSpawn]_vars

----------------------------------------------------------------------------
(* The needs specification: add_hunger(value) and add_thirst(value) called *)
(* on an inhabitant for every u8 value, in either build                    *)

\* The greatest u8, and the cap of hunger and thirst
U8Max == 255
NeedCap == 100

\* "self.hunger += value" on u8: with overflow checks (the dev profile) a
\* sum above 255 panics, without them (the release profile) it wraps
add_hunger_in(self, value, overflow_checks) ==
    IF self.kind # "Ghost" /\ overflow_checks /\ self.hunger + value > U8Max
    THEN [self EXCEPT !.panicked = TRUE]
    ELSE add_hunger(self, value)

\* "self.thirst += value" likewise
add_thirst_in(self, value, overflow_checks) ==
    IF self.kind # "Ghost" /\ overflow_checks /\ self.thirst + value > U8Max
    THEN [self EXCEPT !.panicked = TRUE]
    ELSE add_thirst(self, value)

InitNeeds ==
    /\ \E kind \in NewKinds, level \in 0..NeedCap :
          inhabitants =
                << Prior(InhabitantNew(to_world_position(FridgeAt), kind, 12),
                         level, NeedCap - level, 100) >>
    /\ tiles = FurnishedRoom(InhRoomW, InhRoomH, FridgeAt, 1)
    /\ width = InhRoomW
    /\ height = InhRoomH
    /\ gen_pc = "none"
    /\ twin = NoTiles
    /\ PathIdle
    /\ item = None
    /\ next_id = 12 + InhabitantIds
    /\ result = "none"
    /\ arg = NoArg
    /\ calls = 0
    /\ last_op = "new"

\* One call of add_hunger(value) on the new inhabitant; arg keeps the value
\* and the hunger and thirst the call found
NeedsAddHunger ==
    /\ last_op = "new"
    /\ \E value \in 0..U8Max, overflow_checks \in BOOLEAN :
          /\ inhabitants' = << add_hunger_in(inhabitants[1], value, overflow_checks) >>
          /\ arg' = [value |-> value, hunger |-> inhabitants[1].hunger,
                     thirst |-> inhabitants[1].thirst]
          /\ result' = IF overflow_checks THEN "dev" ELSE "release"
    /\ calls' = calls + 1
    /\ last_op' = "add_hunger"
    /\ UNCHANGED <<stationVars, pathVars, item, next_id>>

\* One call of add_thirst(value) on the new inhabitant
NeedsAddThirst ==
    /\ last_op = "new"
    /\ \E value \in 0..U8Max, overflow_checks \in BOOLEAN :
          /\ inhabitants' = << add_thirst_in(inhabitants[1], value, overflow_checks) >>
          /\ arg' = [value |-> value, hunger |-> inhabitants[1].hunger,
                     thirst |-> inhabitants[1].thirst]
          /\ result' = IF overflow_checks THEN "dev" ELSE "release"
    /\ calls' = calls + 1
    /\ last_op' = "add_thirst"
    /\ UNCHANGED <<stationVars, pathVars, item, next_id>>

NextNeeds == NeedsAddHunger \/ NeedsAddThirst

SpecNeeds == InitNeeds /\ [][NextNeeds]_vars

----------------------------------------------------------------------------
(* The walk specification: one inhabitant without inventory in a corridor  *)
(* that holds up to two Fridges and up to one inner Wall, ticked by update  *)

\* Bounds: the corridor and the age up to which the inhabitant is ticked
WalkRoomW == 4
WalkRoomH == 1
MaxWalkAge == 14

\* The fixture room with a new Fridge on each tile of at, the ids of the
\* Fridge on a tile following from its position
StockedRoom(w, h, at) ==
    [p \in RoomBox(w, h) |->
        IF p \in at
        THEN tile_add_item(test_station_full(w, h)[p],
                           ItemNew(p, Container("Fridge"), 11 * ((p.y - 1) * w + p.x - 1) + 1))
        ELSE test_station_full(w, h)[p]]

\* The stations of the walk model: at most two Fridges, and no inner Wall
\* or one on a tile without Fridge
WalkStations ==
    LET cells == RoomFloor(WalkRoomW, WalkRoomH)
    IN  UNION { { StockedRoom(WalkRoomW, WalkRoomH, at) }
                  \cup { add_tile(StockedRoom(WalkRoomW, WalkRoomH, at), NewTile(w, Wall("Full"))) :
                            w \in cells \ at }
                : at \in { s \in SUBSET cells : Cardinality(s) <= 2 } }

\* <<hunger, thirst>> of the inhabitant when it is taken up: content, hungry
\* or thirsty
WalkStats == { <<0, 0>>, <<50, 0>>, <<0, 50>> }

\* The new inhabitant after remove_item of the two items it was made with
Emptied(self) ==
    IF self.items = <<>> THEN self
    ELSE inhabitant_remove_item(inhabitant_remove_item(self, self.items[1].id), self.items[2].id)

InitWalk ==
    /\ tiles \in WalkStations
    /\ \E spawn \in { p \in RoomFloor(WalkRoomW, WalkRoomH) : tiles[p].kind = Floor },
          kind \in NewKinds, stats \in WalkStats :
          inhabitants =
                << Prior(Emptied(InhabitantNew(to_world_position(spawn), kind, 100)),
                         stats[1], stats[2], 100) >>
    /\ width = WalkRoomW
    /\ height = WalkRoomH
    /\ gen_pc = "none"
    /\ twin = NoTiles
    /\ PathIdle
    /\ item = None
    /\ next_id = 103
    /\ result = "none"
    /\ arg = NoArg
    /\ calls = 0
    /\ last_op = "new"

\* Inhabitant::update on the inhabitant. result tells what the tick did with
\* the destination (set it, reached it, neither) and arg keeps the hunger and
\* the thirst the inhabitant had when set_destination last set one.
WalkUpdate ==
    /\ Running
    /\ inhabitants[1].age < MaxWalkAge
    /\ \E dt \in 1..MaxDt, rnd \in Draws(inhabitants[1], tiles) :
          LET s == inhabitants[1]
              t == update(s, tiles, dt, rnd)
          IN  /\ inhabitants' = <<t>>
              /\ result' = IF s.dest = None /\ t.dest # None THEN "set"
                            ELSE IF s.dest # None /\ t.dest = None THEN "arrived"
                            ELSE "none"
              /\ arg' = IF s.dest = None /\ t.dest # None
                         THEN [hunger |-> s.hunger, thirst |-> s.thirst]
                         ELSE arg
    /\ last_op' = "update"
    /\ UNCHANGED <<stationVars, pathVars, item, next_id, calls>>

NextWalk == WalkUpdate

SpecWalk == InitWalk /\ [][NextWalk]_vars

----------------------------------------------------------------------------
(* The maze specification: path_to queried between the cells of a room in  *)
(* which up to MazeWalls Floor tiles have been replaced by Walls            *)

\* Bounds of the maze model
MazeW == 5
MazeH == 3
MazeWalls == 3

InitMaze ==
    /\ \E walls \in { w \in SUBSET RoomFloor(MazeW, MazeH) : Cardinality(w) <= MazeWalls } :
          tiles = [p \in RoomBox(MazeW, MazeH) |->
                      IF p \in walls THEN NewTile(p, Wall("Full"))
                      ELSE test_station_full(MazeW, MazeH)[p]]
    /\ width = MazeW
    /\ height = MazeH
    /\ gen_pc = "none"
    /\ twin = NoTiles
    /\ PathIdle
    /\ ItemIdle
    /\ InhIdle
    /\ last_op = "new"

\* One path_to call between two cells inside the outer walls
MazePathTo ==
    /\ last_op # "path_to"
    /\ \E start \in RoomFloor(width, height), target \in RoomFloor(width, height) :
          /\ path' = path_to(tiles, start, target, Directions)
          /\ query' = [start |-> start, target |-> target]
    /\ last_op' = "path_to"
    /\ UNCHANGED <<stationVars, edits, itemVars, inhVars>>

NextMaze == MazePathTo

SpecMaze == InitMaze /\ [][NextMaze]_vars

----------------------------------------------------------------------------
(* The tile map specification: test_station(), the station without tiles,  *)
(* under add_tile, remove_tile and get_random_tile                         *)

\* Bounds of the tile map model: the cells (0,0)..(MaxTileX, MaxTileY)
MaxTileX == 1
MaxTileY == 1

TileCells == { GridPosition(x, y) : x \in 0..MaxTileX, y \in 0..MaxTileY }

\* The kinds of the tiles added and asked for
PlacedKinds == { Floor, Wall("Full"), Wall("ExteriorTop"), Door("InteriorVertical") }

InitTiles ==
    /\ StationIdle
    /\ PathIdle
    /\ ItemIdle
    /\ InhIdle
    /\ last_op = "new"

\* s.add_tile(Tile::new(pos, kind)); arg keeps the tile passed
StationAddTile ==
    /\ \E pos \in TileCells, kind \in PlacedKinds :
          /\ tiles' = add_tile(tiles, NewTile(pos, kind))
          /\ arg' = NewTile(pos, kind)
    /\ result' = None
    /\ last_op' = "add_tile"
    /\ UNCHANGED <<gen_pc, twin, width, height, pathVars, item, next_id, inhVars>>

\* s.remove_tile(pos); arg keeps the position passed
StationRemoveTile ==
    /\ \E pos \in TileCells :
          /\ tiles' = remove_tile(tiles, pos)
          /\ arg' = pos
    /\ result' = None
    /\ last_op' = "remove_tile"
    /\ UNCHANGED <<gen_pc, twin, width, height, pathVars, item, next_id, inhVars>>

\* s.get_random_tile(kind, rng); arg keeps the kind asked for and result the
\* Option returned
StationGetRandomTile ==
    /\ \E kind \in PlacedKinds :
          /\ result' \in get_random_tile(tiles, kind)
          /\ arg' = kind
    /\ last_op' = "get_random_tile"
    /\ UNCHANGED <<stationVars, pathVars, item, next_id, inhVars>>

NextTiles == StationAddTile \/ StationRemoveTile \/ StationGetRandomTile

SpecTiles == InitTiles /\ [][NextTiles]_vars

----------------------------------------------------------------------------
(* Claims about generation                                                 *)

\* The 8-neighbourhood of a cell
Neighbourhood8(p) ==
    { GridPosition(x, y) : x \in (p.x - 1)..(p.x + 1), y \in (p.y - 1)..(p.y + 1) } \ {p}

\* C1: once generate has completed, each of the 8 cells around a Floor tile
\* holds a tile (Floor, Wall or Door): no Floor tile borders an empty cell.
C1_FloorsEnclosed ==
    gen_pc = "done" =>
        \A p \in DOMAIN tiles :
            tiles[p].kind = Floor =>
                \A n \in Neighbourhood8(p) :
                    /\ n \in DOMAIN tiles
                    /\ tiles[n].kind.kind \in {"Floor", "Wall", "Door"}

\* C1 witness: a generated station of at least three Floor tiles with one in
\* the corner (0, 0) of the rectangle, whose diagonal neighbour (-1, -1)
\* outside the rectangle got a Wall.
C1_Witness ==
    /\ gen_pc = "done"
    /\ GridPosition(0, 0) \in DOMAIN tiles
    /\ tiles[GridPosition(0, 0)].kind = Floor
    /\ GridPosition(-1, -1) \in DOMAIN tiles
    /\ tiles[GridPosition(-1, -1)].kind.kind = "Wall"
    /\ Cardinality({ p \in DOMAIN tiles : tiles[p].kind = Floor }) >= 3

----------------------------------------------------------------------------
(* Claims about pathfinding                                                *)

IsWallAt(ts, p) == p \in DOMAIN ts /\ ts[p].kind.kind = "Wall"

Orthogonal(p) ==
    { GridPosition(p.x + 1, p.y), GridPosition(p.x - 1, p.y),
      GridPosition(p.x, p.y - 1), GridPosition(p.x, p.y + 1) }

Interior(p) == p.x \in 1..width /\ p.y \in 1..height

\* C2: no position of the sequence returned by path_to is a Wall tile; every
\* waypoint is a tile of the station of kind Floor or Door.
C2_PathAvoidsWalls ==
    last_op = "path_to" =>
        \A i \in 1..Len(path) :
            /\ path[i] \in DOMAIN tiles
            /\ tiles[path[i]].kind.kind \in {"Floor", "Door"}

\* C2 witness: a path that a Wall tile added inside the room forces off the
\* straight line (it is longer than the Manhattan distance).
C2_Witness ==
    /\ last_op = "path_to"
    /\ \E p \in DOMAIN tiles : Interior(p) /\ IsWallAt(tiles, p)
    /\ Len(path) > distance(query.start, query.target)

\* C3: in a room whose interior is all Floor, the number of waypoints between
\* two interior positions is their Manhattan distance.
C3_OpenRoomManhattan ==
    (/\ last_op = "path_to"
     /\ edits = 0
     /\ Interior(query.start)
     /\ Interior(query.target))
        => Len(path) = distance(query.start, query.target)

\* C3 witness: the test's path_to((1,1),(2,2)) in the 2 x 2 room has 2 waypoints.
C3_Witness ==
    /\ last_op = "path_to"
    /\ edits = 0 /\ width = 2 /\ height = 2
    /\ query = [start |-> GridPosition(1, 1), target |-> GridPosition(2, 2)]
    /\ Len(path) = 2

\* The target cannot be entered: it is a Wall, or its four orthogonal
\* neighbours are all Wall tiles.
TargetIsWall == IsWallAt(tiles, query.target)
TargetWalledIn == \A n \in Orthogonal(query.target) : IsWallAt(tiles, n)

\* C4 as stated: path_to is empty when the target is a Wall, and when the
\* target's four orthogonal neighbours are Walls and start is another position.
C4_Original ==
    (/\ last_op = "path_to"
     /\ \/ TargetIsWall
        \/ TargetWalledIn /\ query.start # query.target)
        => path = <<>>

\* C4 amended: path_to is empty when the target is a Wall, and when the
\* target's four orthogonal neighbours are Walls and start is neither the
\* target nor one of those four neighbours.
C4_EmptyWhenWalledIn ==
    (/\ last_op = "path_to"
     /\ \/ TargetIsWall
        \/ /\ TargetWalledIn
           /\ query.start # query.target
           /\ query.start \notin Orthogonal(query.target))
        => path = <<>>

\* C4 witness: a Floor target walled in on four sides, queried from a Floor
\* tile elsewhere in the room, yields the empty path.
C4_Witness ==
    /\ last_op = "path_to"
    /\ TargetWalledIn
    /\ query.target \in DOMAIN tiles /\ tiles[query.target].kind = Floor
    /\ query.start \in DOMAIN tiles /\ tiles[query.start].kind = Floor
    /\ query.start # query.target
    /\ path = <<>>

----------------------------------------------------------------------------
(* Claims about items                                                      *)

\* C5: add_item on an item whose number of children equals its capacity
\* returns an error and leaves the children unchanged; below capacity it
\* succeeds and appends exactly that one item at the end.
C5_AddItemAtCapacity ==
    [][last_op' = "add_item" =>
          IF Len(item.items) = item.capacity
          THEN result' = "Err" /\ item'.items = item.items
          ELSE /\ Len(item.items) < item.capacity
               /\ result' = "Ok"
               /\ item'.items = Append(item.items, arg'.item)]_vars

\* C5 witness: a container holding 10 children has just rejected an add_item.
C5_Witness ==
    /\ last_op = "add_item"
    /\ result = "Err"
    /\ item.kind.type = "Container"
    /\ Len(item.items) = 10

\* An item and all the items nested in it (children and grandchildren)
ItemsWithin(i) ==
    {i} \cup { i.items[k] : k \in 1..Len(i.items) }
        \cup UNION { { i.items[k].items[j] : j \in 1..Len(i.items[k].items) } :
                      k \in 1..Len(i.items) }

\* C6: every item has at most capacity children, where capacity is 10 for a
\* Container and 0 for Food and Drink.
C6_WithinCapacity ==
    \A i \in ItemsWithin(item) :
        /\ Len(i.items) <= i.capacity
        /\ i.capacity = (IF i.kind.type = "Container" THEN 10 ELSE 0)

\* C6 witness: a Locker that add_item has just filled to its 10 children.
C6_Witness ==
    /\ last_op = "add_item"
    /\ result = "Ok"
    /\ item.kind = Container("Locker")
    /\ Len(item.items) = 10

----------------------------------------------------------------------------
(* Inhabitant stats, death and the behavior stack                          *)

Crew == 1..Len(inhabitants)

\* C7: in every state reached from Inhabitant::new by update ticks,
\* add_hunger(1), add_thirst(1), take_damage, eat and drink calls, hunger and
\* thirst are at most 100 and health is between 0 and 100.
C7_StatsInRange ==
    \A i \in Crew :
        /\ inhabitants[i].hunger \in 0..100
        /\ inhabitants[i].thirst \in 0..100
        /\ inhabitants[i].health \in 0..100

\* C7 witness: a tick whose waypoint step has raised the hunger of a moving
\* inhabitant to the cap of 100 and has cost it health.
C7_Witness ==
    /\ last_op = "update"
    /\ inhabitants[1].hunger = 100
    /\ inhabitants[1].health < 100
    /\ inhabitants[1].current_waypoint > 0

\* C8: a take_damage call that brings the health of a non-Ghost to 0 leaves
\* it a Ghost; in every state an inhabitant of health 0 is a Ghost, and
\* can_move_to is true for it on every Wall tile.
C8_DeathMakesGhost ==
    /\ [](\A i \in Crew :
            inhabitants[i].health = 0 =>
                /\ inhabitants[i].kind = "Ghost"
                /\ \A d \in WallDirection :
                      can_move_to(inhabitants[i], NewTile(GridPosition(0, 0), Wall(d))))
    /\ [][\A i \in Crew :
            (/\ last_op' = "take_damage"
             /\ inhabitants[i].kind # "Ghost"
             /\ inhabitants'[i].health = 0) => inhabitants'[i].kind = "Ghost"]_vars

\* C8 witness: a take_damage call has just brought an inhabitant that still
\* carries its rations to health 0, and it is a Ghost.
C8_Witness ==
    /\ last_op = "take_damage"
    /\ inhabitants[1].health = 0
    /\ inhabitants[1].kind = "Ghost"
    /\ Len(inhabitants[1].items) = 2

\* C9: no step (Game::update, the N key, take_damage, die, add_hunger,
\* add_thirst, eat, drink) shortens the inhabitant list or replaces one of
\* its inhabitants, and a Ghost is a Ghost after every step.
C9_GhostIsTerminal ==
    [][/\ Len(inhabitants') >= Len(inhabitants)
       /\ \A i \in Crew :
             /\ inhabitants'[i].id = inhabitants[i].id
             /\ inhabitants[i].kind = "Ghost" => inhabitants'[i].kind = "Ghost"]_vars

\* C9 witness: a Game::update has ticked a crew that the N key has enlarged
\* and that holds a Ghost, dead since before the tick.
C9_Witness ==
    /\ last_op = "update"
    /\ Len(inhabitants) > NumCrew
    /\ inhabitants[1].kind = "Ghost"
    /\ inhabitants[1].behaviors # <<>>

\* C10 as stated: after every call of Inhabitant::update the behavior stack
\* is non-empty.
C10_Original ==
    [][last_op' = "update" => \A i \in Crew : inhabitants'[i].behaviors # <<>>]_vars

\* C10, amended: after a call of Inhabitant::update that found the behavior
\* stack empty, the stack holds exactly the one behavior the decision rule
\* pushed (a call that found it non-empty may leave it empty).
C10_EmptyStackRefilled ==
    [][\A i \in Crew :
         (last_op' = "update" /\ inhabitants[i].behaviors = <<>>) =>
             /\ Len(inhabitants'[i].behaviors) = 1
             /\ inhabitants'[i].behaviors[1] \in {BehaviorEat, BehaviorDrink, BehaviorWander}]_vars

\* C10 witness: an inhabitant that ate from its inventory, which emptied the
\* stack, and whose next tick has decided to eat again.
C10_Witness ==
    /\ last_op = "update"
    /\ inhabitants[1].behaviors = << BehaviorEat >>
    /\ inhabitants[1].hunger = 89
    /\ inhabitants[1].age >= 3

----------------------------------------------------------------------------
(* The decision rule and can_move_to                                       *)

\* The behavior the decision rule owes an inhabitant of this kind, hunger
\* and thirst
Owed(kind, hunger, thirst) ==
    IF kind # "Ghost" /\ hunger >= 50 THEN BehaviorEat
    ELSE IF kind # "Ghost" /\ thirst >= 50 THEN BehaviorDrink
    ELSE BehaviorWander

\* C11: an update that runs with an empty behavior stack pushes exactly one
\* behavior: Eat for a non-Ghost with hunger >= 50 (also when thirst >= 50),
\* otherwise Drink for a non-Ghost with thirst >= 50, otherwise Wander; a
\* Ghost always gets Wander.
C11_DecisionPriority ==
    [][\A i \in Crew :
         (last_op' = "update" /\ inhabitants[i].behaviors = <<>>) =>
             inhabitants'[i].behaviors =
                 << Owed(inhabitants[i].kind, inhabitants[i].hunger, inhabitants[i].thirst) >>]_vars

\* C11 witness: the first tick of an inhabitant that is both hungry and
\* thirsty has pushed Eat.
C11_Witness ==
    /\ last_op = "update"
    /\ inhabitants[1].kind # "Ghost"
    /\ inhabitants[1].hunger >= 50
    /\ inhabitants[1].thirst >= 50
    /\ inhabitants[1].behaviors = << BehaviorEat >>
    /\ inhabitants[1].age <= MaxDt

\* The tiles can_move_to is asked about: a Floor, a Door and a Wall of every
\* direction
AskedTiles ==
    { NewTile(GridPosition(1, 1), kind) :
        kind \in {Floor} \cup {Door(d) : d \in WallDirection} \cup {Wall(d) : d \in WallDirection} }

\* C12: for a non-Ghost can_move_to is true for a Floor and for a Door tile,
\* false for a Wall tile of any direction and false for no tile; for a Ghost
\* it is true in all four cases.
C12_CanMoveTo ==
    \A i \in Crew :
        /\ \A tile \in AskedTiles :
              can_move_to(inhabitants[i], tile) <=>
                  (inhabitants[i].kind = "Ghost" \/ tile.kind.kind \in {"Floor", "Door"})
        /\ can_move_to(inhabitants[i], None) <=> inhabitants[i].kind = "Ghost"

\* C12 witness: an inhabitant that has died of a take_damage call and, as a
\* Ghost, may move onto a Wall and onto no tile.
C12_Witness ==
    /\ last_op = "take_damage"
    /\ inhabitants[1].kind = "Ghost"
    /\ inhabitants[1].health = 0
    /\ can_move_to(inhabitants[1], NewTile(GridPosition(1, 2), Wall("Full")))
    /\ can_move_to(inhabitants[1], None)
    /\ inhabitants[1].age > 0

----------------------------------------------------------------------------
(* Determinism of generation                                               *)

\* The positions and the kinds of a tile map, without the items
Layout(ts) == [p \in DOMAIN ts |-> ts[p].kind]

----------------------------------------------------------------------------
(* Determinism of path_to                                                  *)

\* C14: for a fixed tile map, start and target, path_to returns the same
\* waypoint sequence under every order in which the HashMap of get_neighbors
\* yields the neighbours: the path the query returned is the path under each
\* of the 24 iteration orders.
C14_PathDeterministic ==
    last_op = "path_to" =>
        \A order \in HashOrders :
            path_to(tiles, query.start, query.target, order) = path

\* C14 witness: a query answered with a path of three or more waypoints
\* between two cells that differ in x and in y, so that several shortest
\* routes of the same cost exist and the frontier holds ties.
C14_Witness ==
    /\ last_op = "path_to"
    /\ Len(path) >= 3
    /\ query.start.x # query.target.x
    /\ query.start.y # query.target.y

----------------------------------------------------------------------------
(* Claims about the tile map                                               *)

\* C15: after any sequence of add_tile and remove_tile every tile is keyed by
\* its own pos (and a position holds at most one tile); add_tile at a free
\* position raises num_tiles by one, at an occupied position it replaces the
\* tile and leaves num_tiles as it is; get_tile(p) returns the tile last
\* added at p, the calls on other positions leaving it alone; after
\* remove_tile(p), has_tile(p) is false and get_tile(p) is None.
C15_TileMap ==
    /\ [](\A p \in DOMAIN tiles : tiles[p].pos = p)
    /\ [][(last_op' = "add_tile") =>
             (/\ get_tile(tiles', arg'.pos) = arg'
              /\ num_tiles(tiles') =
                    num_tiles(tiles) + (IF has_tile(tiles, arg'.pos) THEN 0 ELSE 1)
              /\ \A q \in TileCells \ {arg'.pos} :
                    get_tile(tiles', q) = get_tile(tiles, q))]_vars
    /\ [][(last_op' = "remove_tile") =>
             (/\ ~has_tile(tiles', arg')
              /\ get_tile(tiles', arg') = None
              /\ \A q \in TileCells \ {arg'} :
                    get_tile(tiles', q) = get_tile(tiles, q))]_vars

\* C15 witness: a remove_tile that took a tile out of a station in which
\* every cell had been given a tile, a Door among them.
C15_Witness ==
    /\ last_op = "remove_tile"
    /\ DOMAIN tiles = TileCells \ {arg}
    /\ \E p \in DOMAIN tiles : tiles[p].kind = Door("InteriorVertical")

\* C16: get_random_tile(kind, rng) returns a tile of the station whose kind
\* equals the kind asked for, the wall direction included, whenever the
\* station holds one, and None exactly when it holds none.
C16_RandomTileOfKind ==
    last_op = "get_random_tile" =>
        /\ (result = None) <=> (\A p \in DOMAIN tiles : tiles[p].kind # arg)
        /\ result # None => result.kind = arg /\ get_tile(tiles, result.pos) = result

\* C16 witness: a Wall(ExteriorTop) asked for in a station that holds walls
\* of the other direction only, answered with None.
C16_Witness ==
    /\ last_op = "get_random_tile"
    /\ arg = Wall("ExteriorTop")
    /\ result = None
    /\ \E p \in DOMAIN tiles : tiles[p].kind = Wall("Full")

----------------------------------------------------------------------------
(* Claims about new containers and remove_item                             *)

\* What C17 says of an item that Item::new has just returned
AsStocked(i) ==
    /\ i.kind = Container("Fridge") =>
          /\ i.capacity = 10
          /\ Len(i.items) = 10
          /\ \A k \in 1..10 :
                i.items[k].kind = IF k % 2 = 1 THEN Food("EnergyBar") ELSE Drink("Water")
          /\ item_add_item(i, ItemNew(i.pos, Food("EnergyBar"), 0)).result = "Err"
    /\ i.kind = Container("Locker") => i.capacity = 10 /\ i.items = <<>>

\* C17: a new Fridge has capacity 10 and exactly 10 children, Food(EnergyBar)
\* and Drink(Water) in turn starting with Food, so that the next add_item on
\* it fails; a new Locker has capacity 10 and no children. Stated of the
\* item Item::new made first and of every item made to be handed to
\* add_item, and of the add_item step taken on a new Fridge.
C17_NewContainers ==
    /\ []((last_op = "new" => AsStocked(item))
           /\ (last_op = "add_item" => AsStocked(arg.item)))
    /\ [][(last_op = "new" /\ item.kind = Container("Fridge") /\ last_op' = "add_item")
             => (result' = "Err" /\ item' = item)]_vars

\* C17 witness: the add_item called first on a new Fridge, refused.
C17_Witness ==
    /\ last_op = "add_item"
    /\ result = "Err"
    /\ item.kind = Container("Fridge")
    /\ item.id = 1
    /\ next_id = 13

\* s without its k-th element
Without(s, k) == SubSeq(s, 1, k - 1) \o SubSeq(s, k + 1, Len(s))

\* C18: remove_item(id) removes exactly the child with that id: the number
\* of children drops by one and the others keep their relative order; when
\* no child has the id the item is unchanged; and after a removal from a
\* full container one add_item succeeds again.
C18_RemoveItem ==
    /\ [][(last_op' = "remove_item") =>
             IF \E k \in 1..Len(item.items) : item.items[k].id = arg'.id
             THEN /\ Len(item'.items) = Len(item.items) - 1
                  /\ \E k \in 1..Len(item.items) :
                        /\ item.items[k].id = arg'.id
                        /\ item'.items = Without(item.items, k)
                  /\ item' = [item EXCEPT !.items = item'.items]
             ELSE item' = item]_vars
    /\ [][(/\ last_op = "remove_item"
            /\ item.capacity > 0
            /\ Len(item.items) = item.capacity - 1
            /\ last_op' = "add_item")
             => (result' = "Ok" /\ Len(item'.items) = item.capacity)]_vars

\* C18 witness: a child taken out of the middle of a full Fridge, and an
\* add_item that then succeeded and filled it again.
C18_Witness ==
    /\ last_op = "add_item"
    /\ result = "Ok"
    /\ item.kind = Container("Fridge")
    /\ Len(item.items) = 10
    /\ item.items[5].id = 7
    /\ item.items[10].id = 12

----------------------------------------------------------------------------
(* Claims about the station during the simulation                          *)

\* C19: no simulation tick (Station.update, then Inhabitant.update for each
\* inhabitant) adds a tile, removes a tile or changes the kind of a tile.
C19_TicksKeepLayout ==
    [][(last_op' = "update") => Layout(tiles') = Layout(tiles)]_vars

\* C19 witness: a tick has run on the furnished station and has set an
\* inhabitant on its way along a path.
C19_Witness ==
    /\ last_op = "update"
    /\ \E p \in DOMAIN tiles : tiles[p].items # <<>>
    /\ \E i \in Crew : inhabitants[i].age > 0 /\ inhabitants[i].path # <<>>

----------------------------------------------------------------------------
(* Claims about eating and drinking                                        *)

\* The item of one of the types that the scan of has_item comes to first: an
\* item of the list, or the child of a container of the list
Matched(items, item_types) ==
    LET i == CHOOSE k \in 1..Len(items) :
                 /\ HoldsItemOf(<<items[k]>>, item_types)
                 /\ \A l \in 1..(k - 1) : ~HoldsItemOf(<<items[l]>>, item_types)
    IN  IF items[i].kind \in item_types THEN items[i]
        ELSE items[i].items[CHOOSE j \in 1..Len(items[i].items) :
                                /\ items[i].items[j].kind \in item_types
                                /\ \A l \in 1..(j - 1) : items[i].items[l].kind \notin item_types]

\* a - b floored at 0
FlooredSub(a, b) == IF a >= b THEN a - b ELSE 0

\* The items a tick of inhabitant s with Eat or Drink on top is served from:
\* its inventory if that holds a match, else the tile it stands on
Larder(s, item_types) ==
    IF has_item(s, item_types) THEN s.items
    ELSE get_tile_from_world(tiles, s.pos).items

----------------------------------------------------------------------------
(* Claims about Search                                                     *)

\* The fields C21 says a tick leaves alone
Vitals(s) == <<s.hunger, s.thirst, s.health, s.pos, s.dest>>

\* C21: a call of update that finds Eat (Drink) on top and no item of a food
\* (drink) kind in the inventory or on the current tile pushes Search of all
\* food (drink) kinds, Eat (Drink) staying directly beneath it, and changes
\* neither hunger, thirst, health, position nor destination.
C21_SearchPushed ==
    [][\A i \in Crew :
         LET s == inhabitants[i]
             t == inhabitants'[i]
             tile == get_tile_from_world(tiles, s.pos)
         IN  (/\ last_op' = "update"
              /\ t.age # s.age
              /\ ~t.panicked
              /\ s.behaviors # <<>>)
             =>
             /\ (/\ Last(s.behaviors) = BehaviorEat
                 /\ ~has_item(s, get_food_types)
                 /\ ~tile_has_item(tile, get_food_types))
                  => /\ t.behaviors = Append(s.behaviors, BehaviorSearch(get_food_types))
                     /\ Vitals(t) = Vitals(s)
             /\ (/\ Last(s.behaviors) = BehaviorDrink
                 /\ ~has_item(s, get_drink_types)
                 /\ ~tile_has_item(tile, get_drink_types))
                  => /\ t.behaviors = Append(s.behaviors, BehaviorSearch(get_drink_types))
                     /\ Vitals(t) = Vitals(s)
      ]_vars

\* C21 witness: an inhabitant without food, away from the Fridge, whose Eat
\* has just pushed the Search of the food kinds.
C21_Witness ==
    /\ last_op = "update"
    /\ \E i \in Crew :
          /\ inhabitants[i].behaviors = <<BehaviorEat, BehaviorSearch(get_food_types)>>
          /\ inhabitants[i].dest = None
          /\ ~has_item(inhabitants[i], get_food_types)

----------------------------------------------------------------------------
(* Claims about movement                                                   *)

\* C22: a tick whose movement step brings the position of the inhabitant to
\* its destination clears the destination and pops exactly one behavior,
\* the one on top; a tick that moves without reaching the destination pops
\* nothing and keeps the destination.
C22_ArrivalPops ==
    [][\A i \in Crew :
         LET s == inhabitants[i]
             t == inhabitants'[i]
         IN  (/\ last_op' = "update"
              /\ t.age # s.age
              /\ ~t.panicked
              /\ s.dest # None)
             =>
             IF t.pos = s.dest
             THEN t.dest = None /\ t.behaviors = Pop(s.behaviors)
             ELSE t.dest = s.dest /\ t.behaviors = s.behaviors
      ]_vars

\* C22 witness: an inhabitant has walked a path of two waypoints to its end;
\* the destination is cleared and the stack, which held the one behavior, is
\* empty.
C22_Witness ==
    /\ last_op = "update"
    /\ \E i \in Crew :
          /\ inhabitants[i].dest = None
          /\ Len(inhabitants[i].path) >= 2
          /\ inhabitants[i].current_waypoint = Len(inhabitants[i].path) - 1
          /\ inhabitants[i].pos = to_world_position(inhabitants[i].path[Len(inhabitants[i].path)])
          /\ inhabitants[i].behaviors = <<>>

\* C23 as stated: in every update tick that finds Wander on top of the
\* behavior stack, Wander is still on the stack at the end of the tick, the
\* tick in which the inhabitant reaches its wander destination included.
C23_Original ==
    [][\A i \in Crew :
         LET s == inhabitants[i]
             t == inhabitants'[i]
         IN  (/\ last_op' = "update"
              /\ t.age # s.age
              /\ ~t.panicked
              /\ s.behaviors # <<>>
              /\ Last(s.behaviors) = BehaviorWander)
             => \E k \in 1..Len(t.behaviors) : t.behaviors[k] = BehaviorWander
      ]_vars

\* C23, the part that holds: a tick that finds Wander on top and does not
\* bring the inhabitant to its destination leaves the stack as it was.
C23_WanderUntilArrival ==
    [][\A i \in Crew :
         LET s == inhabitants[i]
             t == inhabitants'[i]
         IN  (/\ last_op' = "update"
              /\ t.age # s.age
              /\ ~t.panicked
              /\ s.behaviors # <<>>
              /\ Last(s.behaviors) = BehaviorWander
              /\ ~(s.dest # None /\ t.pos = s.dest))
             => t.behaviors = s.behaviors
      ]_vars

\* C23 witness: a wandering inhabitant has reached its destination and the
\* tick has left it with an empty stack.
C23_Witness ==
    /\ last_op = "update"
    /\ \E i \in Crew :
          /\ inhabitants[i].behaviors = <<>>
          /\ inhabitants[i].dest = None
          /\ inhabitants[i].path # <<>>
          /\ inhabitants[i].hunger < 50
          /\ inhabitants[i].thirst < 50
          /\ inhabitants[i].kind # "Ghost"

\* C24: when Search has brought the inhabitant to its destination and has
\* been popped, the next tick runs the Eat (Drink) beneath it, which finds a
\* matching item on the tile the inhabitant now stands on, reduces hunger
\* (thirst) by the value of that item floored at 0, and pops: the stack is
\* left empty and no Search is pushed again.
C24_EatResumes ==
    [][LET s == inhabitants[1]
           t == inhabitants'[1]
           tile == get_tile_from_world(tiles, s.pos)
       IN  (/\ last_op = "update"
            /\ result = "arrived"
            /\ last_op' = "update"
            /\ s.behaviors # <<>>
            /\ Last(s.behaviors) \in {BehaviorEat, BehaviorDrink})
           =>
           /\ t.behaviors = <<>>
           /\ Last(s.behaviors) = BehaviorEat =>
                 /\ tile_has_item(tile, get_food_types)
                 /\ t.hunger = FlooredSub(s.hunger, get_energy(Matched(tile.items, get_food_types)))
                 /\ t.thirst = s.thirst
           /\ Last(s.behaviors) = BehaviorDrink =>
                 /\ tile_has_item(tile, get_drink_types)
                 /\ t.thirst = FlooredSub(s.thirst, get_hydration(Matched(tile.items, get_drink_types)))
                 /\ t.hunger = s.hunger
      ]_vars

\* C24 witness: an inhabitant that set out hungry on a Search, walked three
\* waypoints to the Fridge and ate there: the stack is empty and the hunger
\* is that of the arrival less 10.
C24_Witness ==
    /\ last_op = "update"
    /\ result = "none"
    /\ inhabitants[1].behaviors = <<>>
    /\ inhabitants[1].dest = None
    /\ Len(inhabitants[1].path) = 3
    /\ arg # NoArg
    /\ arg.hunger = 50
    /\ inhabitants[1].hunger = 42

\* The tiles holding an item of the types, and those of them to which
\* path_to returns a path from the tile of the inhabitant s
Candidates(item_types) == { p \in DOMAIN tiles : tile_has_item(tiles[p], item_types) }
RouteTo(s, p) == path_to(tiles, get_tile_from_world(tiles, s.pos).pos, p, Directions)
ReachableCandidates(s, item_types) == { p \in Candidates(item_types) : RouteTo(s, p) # <<>> }

\* The destination of t is a candidate reachable from s with the fewest
\* waypoints
AtNearest(s, t, item_types) ==
    \E p \in ReachableCandidates(s, item_types) :
        /\ t.dest = to_world_position(p)
        /\ \A q \in ReachableCandidates(s, item_types) : Len(RouteTo(s, p)) <= Len(RouteTo(s, q))

\* C25 as stated: a call of update that finds Search(kinds) on top and no
\* destination, with at least one tile holding an item of the kinds
\* reachable from the current tile, sets the destination to the reachable
\* candidate whose path has the fewest waypoints, in whatever order the
\* candidates are examined and whether or not other candidates are
\* unreachable.
C25_Original ==
    [][LET s == inhabitants[1]
           t == inhabitants'[1]
       IN  (/\ last_op' = "update"
            /\ s.behaviors # <<>>
            /\ Last(s.behaviors).name = "Search"
            /\ s.dest = None
            /\ ReachableCandidates(s, Last(s.behaviors).item_types) # {})
           => AtNearest(s, t, Last(s.behaviors).item_types)
      ]_vars

\* C25, the part that holds: when path_to returns a path to every candidate,
\* the destination is set to the candidate whose path has the fewest
\* waypoints, in whatever order the candidates are examined.
C25_NearestWhenAllReachable ==
    [][LET s == inhabitants[1]
           t == inhabitants'[1]
       IN  (/\ last_op' = "update"
            /\ s.behaviors # <<>>
            /\ Last(s.behaviors).name = "Search"
            /\ s.dest = None
            /\ Candidates(Last(s.behaviors).item_types) # {}
            /\ ReachableCandidates(s, Last(s.behaviors).item_types)
                  = Candidates(Last(s.behaviors).item_types))
           => AtNearest(s, t, Last(s.behaviors).item_types)
      ]_vars

\* C25 witness: an inhabitant that never set out, its Search still on top
\* with no destination after the tick that ran it, although a Fridge is
\* reachable: the other Fridge, behind the Wall, was examined last.
C25_Witness ==
    /\ last_op = "update"
    /\ inhabitants[1].age >= 5
    /\ inhabitants[1].path = <<>>
    /\ inhabitants[1].dest = None
    /\ inhabitants[1].behaviors # <<>>
    /\ Last(inhabitants[1].behaviors).name = "Search"
    /\ ReachableCandidates(inhabitants[1], Last(inhabitants[1].behaviors).item_types) # {}
    /\ Cardinality(Candidates(Last(inhabitants[1].behaviors).item_types)) = 2

\* C26: a call of update that finds Search on top, no destination and no
\* tile holding an item of the kinds searched changes nothing of the
\* inhabitant but its age: stack, position, destination, path, hunger,
\* thirst and health stay, so Search is on top again at the next call and
\* at every later one as long as no candidate appears.
C26_SearchStalls ==
    [][LET s == inhabitants[1]
           t == inhabitants'[1]
       IN  (/\ last_op' = "update"
            /\ s.behaviors # <<>>
            /\ Last(s.behaviors).name = "Search"
            /\ s.dest = None
            /\ Candidates(Last(s.behaviors).item_types) = {})
           => t = [s EXCEPT !.age = t.age]
      ]_vars

\* C26 witness: in a corridor without Fridge the Search pushed in the
\* second tick is still on top, over the Eat, when the ticks end.
C26_Witness ==
    /\ last_op = "update"
    /\ inhabitants[1].age >= MaxWalkAge
    /\ inhabitants[1].behaviors = <<BehaviorEat, BehaviorSearch(get_food_types)>>
    /\ inhabitants[1].dest = None
    /\ Candidates(get_food_types) = {}

\* a + b capped at 100
CappedAdd(a, b) == IF a + b >= 100 THEN 100 ELSE a + b

\* C27 as stated: an inhabitant that has walked a path of n waypoints, from
\* set_destination to the arrival at the destination, has its hunger and its
\* thirst each increased by exactly n (capped at 100) when it is no Ghost,
\* and unchanged when it is a Ghost.
C27_Original ==
    (last_op = "update" /\ result = "arrived") =>
        LET s == inhabitants[1]
            n == Len(s.path)
        IN  IF s.kind = "Ghost"
            THEN s.hunger = arg.hunger /\ s.thirst = arg.thirst
            ELSE s.hunger = CappedAdd(arg.hunger, n) /\ s.thirst = CappedAdd(arg.thirst, n)

\* C27, what the code does: the arrival at the last waypoint is not charged,
\* hunger and thirst are increased by n - 1; a Ghost is not charged at all.
C27_AllButLastCharged ==
    (last_op = "update" /\ result = "arrived") =>
        LET s == inhabitants[1]
            n == Len(s.path)
        IN  IF s.kind = "Ghost"
            THEN s.hunger = arg.hunger /\ s.thirst = arg.thirst
            ELSE s.hunger = CappedAdd(arg.hunger, n - 1) /\ s.thirst = CappedAdd(arg.thirst, n - 1)

\* C27 witness: an Engineer has arrived at the end of a path of three
\* waypoints with its hunger and thirst up by two.
C27_Witness ==
    /\ last_op = "update"
    /\ result = "arrived"
    /\ inhabitants[1].kind # "Ghost"
    /\ Len(inhabitants[1].path) = 3
    /\ inhabitants[1].hunger = arg.hunger + 2
    /\ inhabitants[1].thirst = arg.thirst + 2

----------------------------------------------------------------------------
(* Claims about starvation                                                 *)

\* C28 as stated: while the hunger or the thirst of a non-Ghost inhabitant
\* is 100, every update tick reduces its health by 1, until the hunger
\* (thirst) is reduced below 100 or the inhabitant dies: a tick that finds
\* and leaves the hunger or the thirst of a living inhabitant at 100 takes
\* one point of health.
C28_Original ==
    [][\A i \in Crew :
         LET s == inhabitants[i]
             t == inhabitants'[i]
         IN  (/\ last_op' = "update"
              /\ t.age # s.age
              /\ ~t.panicked
              /\ s.kind # "Ghost"
              /\ \/ s.hunger = 100 /\ t.hunger = 100
                 \/ s.thirst = 100 /\ t.thirst = 100)
             => t.health = s.health - 1
      ]_vars

\* C28, what the code does: an update tick takes health only when
\* keep_moving charges a waypoint and the charge brings the hunger or the
\* thirst to 100, one point for each of the two that it does.
C28_DamageOnlyOnCharge ==
    [][\A i \in Crew :
         LET s == inhabitants[i]
             t == inhabitants'[i]
             charged == t.current_waypoint = s.current_waypoint + 1
         IN  (/\ last_op' = "update"
              /\ t.age # s.age
              /\ ~t.panicked
              /\ s.kind # "Ghost")
             => t.health = saturating_sub(s.health,
                              (IF charged /\ s.hunger >= 99 THEN 1 ELSE 0)
                            + (IF charged /\ s.thirst >= 99 THEN 1 ELSE 0))
      ]_vars

\* C28 witness: an inhabitant brought to hunger 100 by add_hunger, which
\* took its health to 99, has been ticked (the tick pushed Eat) and still
\* has health 99.
C28_Witness ==
    /\ last_op = "update"
    /\ \E i \in Crew :
          /\ inhabitants[i].kind # "Ghost"
          /\ inhabitants[i].hunger = 100
          /\ inhabitants[i].health = 99
          /\ inhabitants[i].behaviors = <<BehaviorEat>>

----------------------------------------------------------------------------
(* Claims about the length and the termination of path_to                  *)

\* The positions one orthogonal step from a position of from that hold a
\* tile that is not a Wall
StepFrom(from) ==
    UNION { { q \in get_neighbors(tiles, p) : tiles[q].kind.kind # "Wall" } : p \in from }

\* The breadth-first distance from the positions of frontier, which are d
\* steps from the start, to target over tiles that are not Walls; -1 when
\* target cannot be reached
RECURSIVE BreadthFirst(_, _, _, _)
BreadthFirst(seen, frontier, target, d) ==
    IF target \in frontier THEN d
    ELSE IF StepFrom(frontier) \ seen = {} THEN -1
    ELSE BreadthFirst(seen \cup StepFrom(frontier), StepFrom(frontier) \ seen, target, d + 1)

Shortest(start, target) == BreadthFirst({start}, {start}, target, 0)

\* C29: whenever the target is a tile that is not a Wall and can be reached
\* from start by orthogonal steps over tiles that are not Walls, path_to
\* returns a path with as many waypoints as a shortest such route has
\* steps, the breadth-first distance, also when Walls force a detour.
C29_ShortestPath ==
    (/\ last_op = "path_to"
     /\ has_tile(tiles, query.target)
     /\ get_tile(tiles, query.target).kind.kind # "Wall"
     /\ Shortest(query.start, query.target) >= 0)
    => Len(path) = Shortest(query.start, query.target)

\* C29 witness: a path between two Floor tiles that is four steps longer
\* than their Manhattan distance: the Walls force the detour.
C29_Witness ==
    /\ last_op = "path_to"
    /\ has_tile(tiles, query.target)
    /\ tiles[query.target].kind = Floor
    /\ Len(path) = distance(query.start, query.target) + 4
    /\ Len(path) = Shortest(query.start, query.target)

\* What one more call of path_to on the query returns, with the number of
\* iterations of its loop
Rerun == path_to_run(tiles, query.start, query.target, Directions)

Unreachable ==
    /\ query.start # query.target
    /\ Shortest(query.start, query.target) = -1

\* C31 as stated: for an unreachable target path_to returns the empty path
\* without its reconstruction loop running up to the cap of 10000
\* iterations.
C31_Original ==
    (last_op = "path_to" /\ Unreachable)
        => /\ path = <<>>
           /\ path_to_run(tiles, query.start, query.target, Directions).iterations
                  <= IterationCap

\* C31, the part that holds: for an unreachable target path_to returns the
\* empty path, and it does so through the cap: the loop has run 10001
\* iterations when it returns.
C31_CapEndsUnreachable ==
    (last_op = "path_to" /\ Unreachable)
        => /\ path = <<>>
           /\ path_to_run(tiles, query.start, query.target, Directions).iterations
                  = IterationCap + 1

\* C31 witness: a query from a Floor tile to a Floor tile that Walls cut off
\* has returned the empty path.
C31_Witness ==
    /\ last_op = "path_to"
    /\ Unreachable
    /\ tiles[query.start].kind = Floor
    /\ tiles[query.target].kind = Floor
    /\ path = <<>>

\* C32: every non-empty path returned by path_to(start, target) is an
\* orthogonal walk: start is not on it, its last waypoint is target, its
\* first waypoint is one orthogonal step from start, consecutive waypoints
\* are at Manhattan distance 1 (no diagonal step), and no position occurs
\* twice.
C32_OrthogonalWalk ==
    (last_op = "path_to" /\ path # <<>>) =>
        /\ \A i \in 1..Len(path) : path[i] # query.start
        /\ path[Len(path)] = query.target
        /\ distance(query.start, path[1]) = 1
        /\ \A i \in 1..(Len(path) - 1) : distance(path[i], path[i + 1]) = 1
        /\ \A i, j \in 1..Len(path) : path[i] = path[j] => i = j

\* C32 witness: a returned path that turns a corner: three or more
\* waypoints to a target in another row and another column than start.
C32_Witness ==
    /\ last_op = "path_to"
    /\ Len(path) >= 3
    /\ query.start.x # query.target.x
    /\ query.start.y # query.target.y

\* The synchronous step over cells: every cell decided by SmoothCell on ts,
\* the state at the start of the iteration, and all decisions applied at
\* once
Synchronous(ts, cells) ==
    LET kept == { p \in (DOMAIN ts) \cup cells :
                    IF p \in cells THEN has_tile(SmoothCell(ts, p), p) ELSE TRUE }
    IN  [p \in kept |-> IF has_tile(ts, p) THEN ts[p] ELSE NewTile(p, Floor)]

\* C33 as stated: each of the two smoothing iterations of generate is a
\* synchronous step: the tiles after it are the result of applying the
\* add/remove rule to every cell with the neighbour counts of the state at
\* the start of the iteration.
C33_Original ==
    [][GenSmooth => tiles' = Synchronous(tiles, Rect(width, height))]_vars

\* C33, the part that holds: a station that the synchronous step would
\* leave as it is, is left as it is by the iteration of generate.
C33_StableUnderSweep ==
    [][(GenSmooth /\ Synchronous(tiles, Rect(width, height)) = tiles)
          => (tiles' = tiles)]_vars

\* C33 witness: both smoothing iterations have run and have left a station
\* with a Floor tile and an empty cell in the rectangle.
C33_Witness ==
    /\ gen_pc = "walls"
    /\ last_op = "smooth"
    /\ \E p \in Rect(width, height) : has_tile(tiles, p)
    /\ \E p \in Rect(width, height) : ~has_tile(tiles, p)

\* The number of Floor tiles of ts among the cells of around
FloorCount(ts, around) ==
    Cardinality({ q \in around : has_tile(ts, q) /\ ts[q].kind = Floor })

\* The cells the rule counts among: the 8 surrounding cells, or the 4
\* orthogonal ones
Counted(pos, diagonals) == IF diagonals THEN Around(pos) ELSE AroundOrthogonal(pos)

\* The add/remove rule for one cell
RuleAt(ts, pos, diagonals) ==
    IF has_tile(ts, pos)
    THEN IF ts[pos].kind = Floor /\ FloorCount(ts, Counted(pos, diagonals)) < 2
         THEN remove_tile(ts, pos) ELSE ts
    ELSE IF FloorCount(ts, Counted(pos, diagonals)) = 3
         THEN add_tile(ts, NewTile(pos, Floor)) ELSE ts

\* The sweep of one smoothing iteration, cell by cell in the order of cells
RECURSIVE RuleSweep(_, _, _, _)
RuleSweep(ts, cells, i, diagonals) ==
    IF i > Len(cells) THEN ts
    ELSE RuleSweep(RuleAt(ts, cells[i], diagonals), cells, i + 1, diagonals)

\* C34 as stated: the smoothing rule counts the Floor tiles among the 8
\* surrounding cells, orthogonal and diagonal: a Floor cell with fewer than
\* 2 of them is removed, an empty cell of the rectangle with exactly 3 of
\* them becomes Floor, every other cell is left as it is.
C34_Original ==
    [][GenSmooth =>
          tiles' = RuleSweep(tiles, CellSeq(width, height), 1, TRUE)]_vars

\* C34, the part that holds: the rule is applied with the Floor tiles
\* counted among the 4 orthogonal cells only.
C34_OrthogonalCount ==
    [][GenSmooth =>
          tiles' = RuleSweep(tiles, CellSeq(width, height), 1, FALSE)]_vars

\* C34 witness: a smoothing iteration has left empty a cell of the
\* rectangle with exactly 3 Floor tiles among the 8 cells around it, of
\* which fewer than 3 are orthogonal.
C34_Witness ==
    /\ last_op = "smooth"
    /\ \E p \in Rect(width, height) :
          /\ ~has_tile(tiles, p)
          /\ FloorCount(tiles, Around(p)) = 3
          /\ FloorCount(tiles, AroundOrthogonal(p)) < 3

\* The station has no Floor tile
NoFloor == \A p \in DOMAIN tiles : tiles[p].kind # Floor

\* C35 as stated: when the generated station has no Floor tile nothing
\* panics: get_random_tile(Floor) returns None and Game::new, the adding of
\* an inhabitant and the Wander behavior take that None as "no valid spawn"
\* instead of unwrapping it.
C35_Original ==
    NoFloor =>
        /\ get_random_tile(tiles, Floor) = {None}
        /\ result # "panicked"
        /\ Running

\* C35, the part that holds: get_random_tile(Floor) returns None exactly on
\* a station without Floor tile, and Game::new panics on exactly those
\* stations; on every other station it leaves num_crew inhabitants on one
\* Floor tile.
C35_PanicsWithoutFloor ==
    /\ NoFloor <=> get_random_tile(tiles, Floor) = {None}
    /\ last_op = "new" =>
          IF NoFloor
          THEN result = "panicked" /\ inhabitants = <<>>
          ELSE /\ result = "none"
               /\ Len(inhabitants) = NumCrew
               /\ \E p \in DOMAIN tiles :
                     /\ tiles[p].kind = Floor
                     /\ \A i \in 1..NumCrew :
                           inhabitants[i].pos = to_world_position(p)

\* C35 witness: Game::new has run on a station generated on a rectangle
\* with cells of which no Floor tile was left.
C35_Witness ==
    /\ last_op = "new"
    /\ width >= 1
    /\ height >= 1
    /\ NoFloor
    /\ result = "panicked"

\* The positions of the tiles that hold an item
Holders == { p \in DOMAIN tiles : tiles[p].items # <<>> }

\* C36: after generation a station with a Floor tile has exactly one tile
\* that holds items, a Floor tile holding exactly one container of capacity
\* 10; a station without Floor tile has no tile holding an item.  No Wall
\* tile ever holds an item.
C36_OneFridge ==
    /\ \A p \in Holders : tiles[p].kind.kind # "Wall"
    /\ gen_pc = "done" =>
          IF NoFloor THEN Holders = {}
          ELSE \E p \in DOMAIN tiles :
                  /\ Holders = {p}
                  /\ tiles[p].kind = Floor
                  /\ Len(tiles[p].items) = 1
                  /\ tiles[p].items[1].kind = "Fridge"
                  /\ tiles[p].items[1].capacity = 10

\* C36 witness: generation has ended on a station with several Floor tiles
\* inside Walls, one of them holding the fridge.
C36_Witness ==
    /\ gen_pc = "done"
    /\ Cardinality({ p \in DOMAIN tiles : tiles[p].kind = Floor }) >= 4
    /\ \E p \in DOMAIN tiles : tiles[p].kind.kind = "Wall"
    /\ Cardinality(Holders) = 1

\* The inhabitant of the needs specification
Needy == inhabitants[1]

\* C37 as stated: add_hunger(value) and add_thirst(value) saturate for every
\* 8-bit value: from every hunger in 0..100 and for every value in 0..255
\* the call leaves hunger = min(100, hunger + value), the 8-bit sum never
\* overflowing or wrapping; likewise thirst.
C37_Original ==
    /\ (last_op = "add_hunger" /\ Needy.kind # "Ghost") =>
          /\ ~Needy.panicked
          /\ Needy.hunger = CappedAdd(arg.hunger, arg.value)
    /\ (last_op = "add_thirst" /\ Needy.kind # "Ghost") =>
          /\ ~Needy.panicked
          /\ Needy.thirst = CappedAdd(arg.thirst, arg.value)

\* C37, the part that holds: the calls saturate whenever the sum of the
\* current level and value fits 8 bits, in either build.
C37_SaturatesWithinU8 ==
    /\ (last_op = "add_hunger" /\ Needy.kind # "Ghost" /\ arg.hunger + arg.value <= U8Max) =>
          /\ ~Needy.panicked
          /\ Needy.hunger = CappedAdd(arg.hunger, arg.value)
    /\ (last_op = "add_thirst" /\ Needy.kind # "Ghost" /\ arg.thirst + arg.value <= U8Max) =>
          /\ ~Needy.panicked
          /\ Needy.thirst = CappedAdd(arg.thirst, arg.value)

\* C37 witness: add_hunger with a value above 100 on a hunger above 0 has
\* left the hunger at 100.
C37_Witness ==
    /\ last_op = "add_hunger"
    /\ Needy.kind # "Ghost"
    /\ arg.value > NeedCap
    /\ arg.hunger > 0
    /\ arg.hunger + arg.value <= U8Max
    /\ Needy.hunger = NeedCap

\* The shapes of behavior stack the claim allows: at most two entries;
\* Wander, Eat and Drink at the bottom only; Search only directly above Eat
\* with the food kinds or directly above Drink with the drink kinds; no Work
StackShape(b) ==
    /\ Len(b) <= 2
    /\ \A k \in 1..Len(b) :
          /\ b[k].name # "Work"
          /\ b[k].name \in {"Wander", "Eat", "Drink"} => k = 1
          /\ b[k].name = "Search" =>
                /\ k = 2
                /\ \/ b[1].name = "Eat" /\ b[2].item_types = get_food_types
                   \/ b[1].name = "Drink" /\ b[2].item_types = get_drink_types

\* C38: in every state reached from Inhabitant::new by update ticks the
\* behavior stack has one of these shapes.
C38_StackShape ==
    \A i \in 1..Len(inhabitants) : StackShape(inhabitants[i].behaviors)

\* C38 witness: an inhabitant on its way to a drink, with Search of the
\* drink kinds above Drink.
C38_Witness ==
    /\ last_op = "update"
    /\ inhabitants[1].dest # None
    /\ Len(inhabitants[1].behaviors) = 2
    /\ inhabitants[1].behaviors[1] = BehaviorDrink
    /\ inhabitants[1].behaviors[2] = BehaviorSearch(get_drink_types)

\* C39: in every state reached by update ticks a set destination comes with
\* a valid waypoint index: dest is Some only if path is not empty and
\* current_waypoint is below its length, and the last waypoint of path is
\* the tile of the destination; keep_moving never indexes the path out of
\* range.
C39_WaypointInRange ==
    \A i \in 1..Len(inhabitants) :
        LET s == inhabitants[i]
        IN  /\ ~s.panicked
            /\ s.dest # None =>
                  /\ s.path # <<>>
                  /\ s.current_waypoint < Len(s.path)
                  /\ to_world_position(s.path[Len(s.path)]) = s.dest

\* C39 witness: an inhabitant under way on a path of three waypoints that
\* has passed the second one.
C39_Witness ==
    /\ last_op = "update"
    /\ inhabitants[1].dest # None
    /\ Len(inhabitants[1].path) = 3
    /\ inhabitants[1].current_waypoint = 2

\* C40: eating and drinking deplete nothing.  A call of update in which Eat
\* or Drink reduces the hunger or the thirst leaves the inventory of the
\* inhabitant and the items of every tile, with those of the containers on
\* them, as they were; and a call that finds Eat on top and a food item in
\* the inventory pops the Eat without pushing a Search and leaves the food
\* item in the inventory for every later Eat.
C40_NothingDepleted ==
    [][\A i \in Crew :
         LET s == inhabitants[i]
             t == inhabitants'[i]
         IN  (/\ last_op' = "update"
              /\ t.age # s.age
              /\ ~t.panicked
              /\ s.behaviors # <<>>
              /\ Last(s.behaviors) \in {BehaviorEat, BehaviorDrink})
             =>
             /\ (t.hunger < s.hunger \/ t.thirst < s.thirst)
                  => /\ t.items = s.items
                     /\ tiles' = tiles
             /\ (Last(s.behaviors) = BehaviorEat /\ has_item(s, get_food_types))
                  => /\ t.behaviors = Pop(s.behaviors)
                     /\ t.hunger = saturating_sub(s.hunger, 10)
                     /\ has_item(t, get_food_types)
      ]_vars

\* C40 witness: an inhabitant that has eaten from its inventory twice, from
\* hunger 100 down to 80, and still holds its two items.
C40_Witness ==
    /\ last_op = "update"
    /\ \E i \in Crew :
          /\ inhabitants[i].hunger = 80
          /\ inhabitants[i].behaviors = <<>>
          /\ has_item(inhabitants[i], get_food_types)
          /\ Len(inhabitants[i].items) = 2

====
